---- MODULE Spec2Model ----
(***************************************************************************)
(* Model of the APEX maintenance scripts (mraysmit/apex): the keyword      *)
(* extractor (extract_apex_keywords.py), the documentation gap analysis    *)
(* (analyze_apex_documentation_gaps.py, smart_apex_keyword_analysis.py,    *)
(* definitive_apex_keywords.py), the coverage check                        *)
(* (scripts/check_yaml_keyword_coverage.py) and the demo analyzer's entry  *)
(* point (scripts/analyze_demo_yaml_files.py).                             *)
(*                                                                         *)
(* Python str values are TLA+ strings; Len, SubSeq and \o act on them as   *)
(* on sequences of characters.  A parsed YAML value is a record            *)
(* [t, v, items] (see the Node constructors).                              *)
(***************************************************************************)
EXTENDS Integers, Sequences, FiniteSets, TLC

VARIABLES
    \* ---- the classifiers applied to a keyword set (SpecClassify)
    c_keywords,      \* the set handed to the classifiers
    c_done,          \* the classifiers that have returned
    c_missing,       \* categories of categorize_missing_keywords
    c_keyword,       \* categories of categorize_keywords
    c_apex,          \* set returned by filter_apex_keywords
    \* ---- one file handed to the per-file extractors (SpecExtract)
    x_file,          \* the file on disk
    x_done,          \* the extractors that have returned
    x_keywords,      \* set returned by extract_keywords_from_yaml
    x_regex_used,    \* whether extract_keywords_regex ran in that call
    x_analyzed,      \* keyword set returned by analyze_yaml_file
    \* ---- the working directory the scripts are run in (Spec)
    fs_demo,         \* whether the directory apex-demo exists
    fs_yaml,         \* the YAML files under apex-demo, in the order found
    fs_reference,    \* docs/APEX_YAML_REFERENCE.md
    fs_extracted,    \* apex_keywords_extracted.txt
    \* ---- the script that is running (Spec)
    script,          \* its file name, "none" between runs
    pc,              \* "shell", a position inside main, or "exited"
    yaml_i,          \* how many of yaml_files the loop of main has handled
    locals,          \* the local variables of main
    diagnostics,     \* error and warning lines printed
    counts,          \* <<label, number>> of each count printed
    written,         \* names of the report files the run has written
    exit_code,       \* exit status of the process once pc = "exited"
    \* ---- the project tree the validation scripts are run in (SpecValidate)
    v_yaml,          \* the parsed files find_yaml_files(".") returns, in order
    v_project,       \* what the checks of the other validation scripts find
    all_results,     \* the ValidationResult list of validate_yaml_files.main
    \* ---- the files fix-yaml-metadata.py is run over (SpecFix)
    fx_dir,          \* the YAML files found, each with its name and backup
    fx_writable,     \* whether files can be written where they lie
    \* ---- the resource tree the reorganization scripts work on
    rs_files,        \* the files of the old and the new structure, by path
    rs_dirs,         \* the old directories that exist
    rs_original,     \* the files of the old structure before any script ran
    rs_runs,         \* the scripts that ended, each with its exit code
    rs_io,           \* how shutil.copy2, shutil.rmtree and os.remove end
                     \* during the run under way
    \* ---- one text handed to extract_yaml_blocks (SpecBlocks)
    b_content,       \* the text
    b_done,          \* whether extract_yaml_blocks has returned
    b_blocks,        \* the list it returned
    \* ---- one ValidationResult and the calls made on it (SpecResult)
    r_result,        \* the object
    r_method,        \* the method or function called last
    r_content,       \* the content handed to validate_top_level_sections
    r_file_type      \* the file type handed to validate_top_level_sections

classify_vars == <<c_keywords, c_done, c_missing, c_keyword, c_apex>>
extract_vars == <<x_file, x_done, x_keywords, x_regex_used, x_analyzed>>
fs_vars == <<fs_demo, fs_yaml, fs_reference, fs_extracted>>
run_vars == <<script, pc, yaml_i, locals, diagnostics, counts, written, exit_code>>
validate_vars == <<v_yaml, v_project, all_results>>
fix_vars == <<fx_dir, fx_writable>>
reorganize_vars == <<rs_files, rs_dirs, rs_original, rs_runs, rs_io>>
blocks_vars == <<b_content, b_done, b_blocks>>
result_vars == <<r_result, r_method, r_content, r_file_type>>
tool_vars == <<validate_vars, fix_vars, reorganize_vars, blocks_vars, result_vars>>
\* The variables no validation script touches
not_validate_vars ==
    <<classify_vars, extract_vars, fs_vars, fix_vars, reorganize_vars, blocks_vars,
      result_vars>>
\* The variables the fixer does not touch
not_fix_vars ==
    <<classify_vars, extract_vars, fs_vars, validate_vars, reorganize_vars,
      blocks_vars, result_vars>>
\* The variables the reorganization scripts do not touch
not_reorganize_vars ==
    <<classify_vars, extract_vars, fs_vars, validate_vars, fix_vars, blocks_vars,
      result_vars>>
vars == <<classify_vars, extract_vars, fs_vars, run_vars, tool_vars>>

-----------------------------------------------------------------------------
(* Characters and str methods                                              *)

\* The grave accent (U+0060), the character of a Markdown code fence.  A TLA+
\* string literal cannot hold it, so texts of the model write it as a tilde
\* (no text of the model uses a tilde itself).
Grave == "~"

\* Printable ASCII (and the white space controls) in code point order, the
\* grave accent at its place between "_" and "a".
AsciiOrder ==
    "\t\n\f\r !\"#$%&'()*+,-./0123456789:;<=>?@ABCDEFGHIJKLMNOPQRSTUVWXYZ[\\]^_~abcdefghijklmnopqrstuvwxyz{|}"

CharAt(s, i) == SubSeq(s, i, i)

Chars == {CharAt(AsciiOrder, i) : i \in 1..Len(AsciiOrder)}

\* ord(c), up to the offset of the first character
OrdOf == [c \in Chars |-> CHOOSE i \in 1..Len(AsciiOrder) : CharAt(AsciiOrder, i) = c]

Ord(c) == OrdOf[c]

UpperChars == {c \in Chars : OrdOf["A"] <= OrdOf[c] /\ OrdOf[c] <= OrdOf["Z"]}
LowerChars == {c \in Chars : OrdOf["a"] <= OrdOf[c] /\ OrdOf[c] <= OrdOf["z"]}
DigitChars == {c \in Chars : OrdOf["0"] <= OrdOf[c] /\ OrdOf[c] <= OrdOf["9"]}

IsUpper(c) == c \in UpperChars

\* [a-zA-Z]
IsAlpha(c) == c \in UpperChars \cup LowerChars

IsDigit(c) == c \in DigitChars

\* \s of the re module, for ASCII text
IsSpace(c) == c \in {" ", "\t", "\n", "\r", "\f"}

\* [a-zA-Z0-9_-]
IsIdentChar(c) == IsAlpha(c) \/ IsDigit(c) \/ c = "_" \/ c = "-"

LowerOf == [c \in Chars |->
              IF c \in UpperChars
              THEN CharAt(AsciiOrder, OrdOf[c] + (OrdOf["a"] - OrdOf["A"]))
              ELSE c]

LowerChar(c) == LowerOf[c]

RECURSIVE Lower(_)
\* str.lower()
Lower(s) ==
    IF Len(s) = 0 THEN s ELSE LowerChar(CharAt(s, 1)) \o Lower(Tail(s))

\* pattern in s
Contains(pattern, s) ==
    \E i \in 1..(Len(s) - Len(pattern) + 1) :
        SubSeq(s, i, i + Len(pattern) - 1) = pattern

\* s.startswith(prefix)
StartsWith(s, prefix) ==
    Len(prefix) <= Len(s) /\ SubSeq(s, 1, Len(prefix)) = prefix

RECURSIVE StrLess(_, _)
\* s < t for str: code point order, a proper prefix first
StrLess(s, t) ==
    IF Len(t) = 0 THEN FALSE
    ELSE IF Len(s) = 0 THEN TRUE
    ELSE IF CharAt(s, 1) = CharAt(t, 1) THEN StrLess(Tail(s), Tail(t))
    ELSE Ord(CharAt(s, 1)) < Ord(CharAt(t, 1))

\* sorted(K) for a set of str: each keyword at the place its rank gives it
Sorted(K) ==
    LET rank == [k \in K |-> Cardinality({o \in K : StrLess(o, k)})]
    IN  [i \in 1..Cardinality(K) |-> CHOOSE k \in K : rank[k] = i - 1]

\* s.endswith(suffix)
EndsWith(s, suffix) ==
    Len(suffix) <= Len(s) /\ SubSeq(s, Len(s) - Len(suffix) + 1, Len(s)) = suffix

UpperOf == [c \in Chars |->
              IF c \in LowerChars
              THEN CharAt(AsciiOrder, OrdOf[c] - (OrdOf["a"] - OrdOf["A"]))
              ELSE c]

RECURSIVE Upper(_)
\* str.upper()
Upper(s) ==
    IF Len(s) = 0 THEN s ELSE UpperOf[CharAt(s, 1)] \o Upper(Tail(s))

RECURSIVE ReplaceChar(_, _, _)
\* s.replace(old, new) for a one-character `old`
ReplaceChar(s, old, new) ==
    IF Len(s) = 0 THEN s
    ELSE (IF CharAt(s, 1) = old THEN new ELSE CharAt(s, 1))
         \o ReplaceChar(Tail(s), old, new)

\* s.isdigit(): at least one character, and all of them digits
IsDigitStr(s) ==
    Len(s) > 0 /\ \A i \in 1..Len(s) : IsDigit(CharAt(s, i))

\* s.strip()
Strip(s) ==
    LET kept == {i \in 1..Len(s) : ~IsSpace(CharAt(s, i))}
    IN  IF kept = {} THEN ""
        ELSE SubSeq(s, CHOOSE i \in kept : \A j \in kept : i <= j,
                       CHOOSE i \in kept : \A j \in kept : j <= i)

\* s.split('\n')
SplitLines(s) ==
    LET breaks == {i \in 1..Len(s) : CharAt(s, i) = "\n"}
        \* the k-th line ends before the k-th break (the last at the end)
        endOf(k) == IF k > Cardinality(breaks) THEN Len(s) + 1
                    ELSE CHOOSE i \in breaks :
                             Cardinality({j \in breaks : j < i}) = k - 1
    IN  [k \in 1..(Cardinality(breaks) + 1) |->
            SubSeq(s, (IF k = 1 THEN 1 ELSE endOf(k - 1) + 1), endOf(k) - 1)]

\* s.split('.')[-1]
LastDotSegment(s) ==
    LET dots == {i \in 1..Len(s) : CharAt(s, i) = "."}
    IN  IF dots = {} THEN s
        ELSE SubSeq(s, (CHOOSE i \in dots : \A j \in dots : j <= i) + 1, Len(s))

RECURSIVE Str(_)
\* str(n) for n >= 0
Str(n) ==
    IF n < 10 THEN CharAt("0123456789", n + 1)
    ELSE Str(n \div 10) \o CharAt("0123456789", (n % 10) + 1)

RECURSIVE Repeat(_, _)
\* c * n
Repeat(c, n) ==
    IF n = 0 THEN ""
    ELSE LET half == Repeat(c, n \div 2)
         IN  half \o half \o (IF n % 2 = 1 THEN c ELSE "")

RECURSIVE Concat(_)
\* ''.join(pieces)
Concat(pieces) ==
    IF pieces = <<>> THEN "" ELSE Head(pieces) \o Concat(Tail(pieces))

Range(seq) == {seq[i] : i \in 1..Len(seq)}

-----------------------------------------------------------------------------
(* The classifiers: categorize_missing_keywords and categorize_keywords     *)

\* analyze_apex_documentation_gaps.py: the keys of `categories`, in order
MissingCategories ==
    <<"Core APEX Keywords", "Field Enrichment", "Data Sources", "Configuration",
      "Business Logic", "Performance/Caching", "Database/Queries", "REST API",
      "Financial Domain", "Other">>

\* analyze_apex_documentation_gaps.py: the keys of `patterns`, in order
MissingPatternOrder ==
    <<"Core APEX Keywords", "Field Enrichment", "Data Sources", "Configuration",
      "Performance/Caching", "Database/Queries", "REST API", "Financial Domain">>

\* analyze_apex_documentation_gaps.py: `patterns`
MissingPatterns(category) ==
    CASE category = "Core APEX Keywords" ->
            <<"default-value", "field-enrichment", "calculation-enrichment",
              "lookup-enrichment", "field-mappings", "source-field",
              "target-field", "result-field", "calculation-config">>
      [] category = "Field Enrichment" ->
            <<"enrichment", "mapping", "transformation", "field", "target",
              "source">>
      [] category = "Data Sources" ->
            <<"data-source", "database", "connection", "query", "endpoint",
              "rest-api">>
      [] category = "Configuration" ->
            <<"config", "setting", "parameter", "timeout", "retry", "enabled",
              "disabled">>
      [] category = "Performance/Caching" ->
            <<"cache", "ttl", "performance", "metrics", "monitoring",
              "statistics">>
      [] category = "Database/Queries" ->
            <<"sql", "query", "table", "column", "database", "connection",
              "pool">>
      [] category = "REST API" ->
            <<"rest", "api", "http", "endpoint", "url", "response", "request">>
      [] category = "Financial Domain" ->
            <<"trade", "currency", "market", "price", "risk", "settlement",
              "counterparty", "instrument", "portfolio", "customer", "account">>

\* extract_apex_keywords.py: the keys of `categories`, in order
KeywordCategories ==
    <<"metadata", "enrichment", "rules", "data_sources", "field_mappings",
      "calculations", "lookups", "conditions", "configuration", "other">>

\* extract_apex_keywords.py: the keys of `patterns`, in order
KeywordPatternOrder ==
    <<"metadata", "enrichment", "rules", "data_sources", "field_mappings",
      "calculations", "lookups", "conditions", "configuration">>

\* extract_apex_keywords.py: `patterns`
KeywordPatterns(category) ==
    CASE category = "metadata" ->
            <<"id", "name", "version", "description", "type", "author",
              "created-date", "tags">>
      [] category = "enrichment" ->
            <<"enrichments", "field-enrichment", "lookup-enrichment",
              "calculation-enrichment">>
      [] category = "rules" ->
            <<"rules", "condition", "message", "severity", "priority">>
      [] category = "data_sources" ->
            <<"data-sources", "data-source-refs", "connection", "base-url",
              "endpoints">>
      [] category = "field_mappings" ->
            <<"field-mappings", "source-field", "target-field", "default-value",
              "required">>
      [] category = "calculations" ->
            <<"calculations", "calculation-config", "expression",
              "result-field">>
      [] category = "lookups" ->
            <<"lookup-config", "lookup-key", "lookup-dataset", "key-field",
              "data">>
      [] category = "conditions" -> <<"enabled", "condition">>
      [] category = "configuration" ->
            <<"cache", "ttlSeconds", "maxSize", "keyPrefix", "parameters">>

\* The test of the inner loop (lines 120 and 103):
\*   keyword in pattern_list or any(pattern in keyword.lower() for pattern in pattern_list)
PatternListMatches(keyword, pattern_list) ==
    \/ keyword \in Range(pattern_list)
    \/ \E i \in 1..Len(pattern_list) : Contains(pattern_list[i], Lower(keyword))

\* The categories of `patterns` whose test succeeds for the keyword, in
\* the order the inner loop meets them
MatchingMissing(keyword) ==
    SelectSeq(MissingPatternOrder,
              LAMBDA c : PatternListMatches(keyword, MissingPatterns(c)))

MatchingKeyword(keyword) ==
    SelectSeq(KeywordPatternOrder,
              LAMBDA c : PatternListMatches(keyword, KeywordPatterns(c)))

\* The categories no `break` would keep the loop from appending to
AppendTargetsNoBreak(matching, other) ==
    IF matching = <<>> THEN <<other>> ELSE matching

\* The categories one pass of the outer loop body appends the keyword to:
\* the first whose test succeeds (`break`), else the catch-all
AppendTargets(matching, other) ==
    IF matching = <<>> THEN <<other>> ELSE <<Head(matching)>>

\* categories[category] once the loop has run over `todo`: a keyword is
\* appended in its own pass, and the passes go through `todo` in order, so
\* the list holds, in that order, the keywords whose pass appends to it
\* (targets[keyword] being the categories that pass appends to)
AppendAll(todo, category, targets) ==
    SelectSeq(todo, LAMBDA keyword : category \in Range(targets[keyword]))

\* `categories` after
\*   for keyword in sorted(missing_keywords): ...   (lines 117-126)
CategorizeMissingLoop(todo) ==
    LET targets == [keyword \in Range(todo) |->
                       AppendTargets(MatchingMissing(keyword), "Other")]
    IN  [c \in Range(MissingCategories) |-> AppendAll(todo, c, targets)]

categorize_missing_keywords(missing_keywords) ==
    CategorizeMissingLoop(Sorted(missing_keywords))

\* `categories` after
\*   for keyword in sorted(keywords): ...   (lines 100-109)
CategorizeKeywordsLoop(todo) ==
    LET targets == [keyword \in Range(todo) |->
                       AppendTargets(MatchingKeyword(keyword), "other")]
    IN  [c \in Range(KeywordCategories) |-> AppendAll(todo, c, targets)]

categorize_keywords(keywords) ==
    CategorizeKeywordsLoop(Sorted(keywords))

-----------------------------------------------------------------------------
(* Parsed YAML values and files                                             *)

\* What yaml.safe_load returns: None, a scalar, a dict (its items in
\* insertion order, each <<key, value>>) or a list.
Null == [t |-> "null", v |-> "", items |-> <<>>]
Scalar(v) == [t |-> "scalar", v |-> v, items |-> <<>>]
\* An int or float scalar, `v` its text
Number(v) == [t |-> "number", v |-> v, items |-> <<>>]
Map(items) == [t |-> "map", v |-> "", items |-> items]
List(items) == [t |-> "list", v |-> "", items |-> items]

\* bool(data): None, '', 0, {} and [] are false
Truthy(data) ==
    CASE data.t = "null" -> FALSE
      [] data.t = "scalar" -> data.v # ""
      [] data.t = "number" -> data.v \notin {"0", "0.0"}
      [] OTHER -> data.items # <<>>

\* key in data, for a dict
HasKey(data, key) == \E i \in 1..Len(data.items) : data.items[i][1] = key

\* data.get(key), for a dict
Get(data, key) ==
    IF HasKey(data, key)
    THEN data.items[CHOOSE i \in 1..Len(data.items) : data.items[i][1] = key][2]
    ELSE Null

\* A file as the scripts meet it.  `readable`: open() and read() succeed.
\* `parse`: what yaml.safe_load(content) does: "ok" (returns `data`),
\* "YAMLError" (raises yaml.YAMLError) or "error" (raises another exception,
\* as the timestamp constructor's ValueError for a date such as 2001-02-30).
File(readable, content, parse, data) ==
    [readable |-> readable, content |-> content, parse |-> parse, data |-> data]

Unreadable == File(FALSE, "", "ok", Null)
Parsed(content, data) == File(TRUE, content, "ok", data)
Malformed(content) == File(TRUE, content, "YAMLError", Null)
Unconstructible(content) == File(TRUE, content, "error", Null)

-----------------------------------------------------------------------------
(* extract_apex_keywords.py: the per-file extractor                         *)

RECURSIVE extract_keys_recursive(_, _)
RECURSIVE ExtractDictItems(_, _)
RECURSIVE ExtractListItems(_, _)

\* A walk that takes the keys of the top-level dict and does not descend
ExtractDictItemsTopLevel(items, keywords) ==
    keywords \cup {items[i][1] : i \in 1..Len(items)}

\* for key, value in data.items(): keywords.add(key); recurse into value
ExtractDictItems(items, keywords) ==
    IF items = <<>> THEN keywords
    ELSE ExtractDictItems(
             Tail(items),
             extract_keys_recursive(Head(items)[2],
                                    keywords \cup {Head(items)[1]}))

\* A list whose elements are not looked into
ExtractListItemsSkipped(items, keywords) == keywords

\* for item in data: recurse into item
ExtractListItems(items, keywords) ==
    IF items = <<>> THEN keywords
    ELSE ExtractListItems(Tail(items),
                          extract_keys_recursive(Head(items), keywords))

\* The set `keywords` after the call (the `path` argument only builds a
\* string that nothing reads)
extract_keys_recursive(data, keywords) ==
    IF data.t = "map" THEN ExtractDictItems(data.items, keywords)
    ELSE IF data.t = "list" THEN ExtractListItems(data.items, keywords)
    ELSE keywords

\* The position \s* reaches from position p (1-based; Len + 1 is the end)
SkipSpaces(content, p) ==
    CHOOSE q \in p..(Len(content) + 1) :
        /\ \A j \in p..(q - 1) : IsSpace(CharAt(content, j))
        /\ (q = Len(content) + 1 \/ ~IsSpace(CharAt(content, q)))

\* The position [a-zA-Z0-9_-]* reaches from position p
SkipIdent(content, p) ==
    CHOOSE q \in p..(Len(content) + 1) :
        /\ \A j \in p..(q - 1) : IsIdentChar(CharAt(content, j))
        /\ (q = Len(content) + 1 \/ ~IsIdentChar(CharAt(content, q)))

\* Positions where ^ matches under re.MULTILINE
LineStarts(content) ==
    {p \in 1..Len(content) : p = 1 \/ CharAt(content, p - 1) = "\n"}

\* ^\s*([a-zA-Z][a-zA-Z0-9_-]*):(?:\s|$) tried at p: the captured group as
\* a one-element set, or {} when there is no match at p.  No step of the
\* pattern can backtrack into another.
PropertyAt(content, p) ==
    LET q == SkipSpaces(content, p)
        r == SkipIdent(content, q)
    IN  IF /\ q <= Len(content)
           /\ IsAlpha(CharAt(content, q))
           /\ r <= Len(content)
           /\ CharAt(content, r) = ":"
           /\ (r = Len(content) \/ IsSpace(CharAt(content, r + 1)))
        THEN {SubSeq(content, q, r - 1)}
        ELSE {}

\* set(re.findall(r'^\s*([a-zA-Z][a-zA-Z0-9_-]*):(?:\s|$)', content, re.MULTILINE)):
\* a line start that an earlier match ran over lies in that match's \s*,
\* and a match tried there captures the same group.
PropertyNames(content) ==
    UNION {PropertyAt(content, p) : p \in LineStarts(content)}

\* keywords.update(properties)
extract_keywords_regex(content, keywords) ==
    keywords \cup PropertyNames(content)

\* A handler that falls back on any failure of the parse
RegexFallbackOnAnyError(file) == file.readable /\ file.parse # "ok"

\* Whether the call reaches extract_keywords_regex (the handler of
\* yaml.YAMLError, line 47)
RegexFallbackTaken(file) == file.readable /\ file.parse = "YAMLError"

\* The set the call returns.  open() or read() raising, or safe_load raising
\* anything but yaml.YAMLError, ends in the outer handler (line 51) with
\* `keywords` as it stands.
extract_keywords_from_yaml(file) ==
    IF ~file.readable THEN {}
    ELSE IF file.parse = "ok"
         THEN IF Truthy(file.data)
              THEN extract_keys_recursive(file.data, {}) ELSE {}
    ELSE IF RegexFallbackTaken(file)
         THEN extract_keywords_regex(file.content, {})
    ELSE {}

\* scripts/check_yaml_keyword_coverage.py, analyze_yaml_file: the first set
\* returned.  extract_from_dict is the same walk as extract_keys_recursive;
\* every exception ends in `return set(), set()`.
analyze_yaml_file(file) ==
    IF ~file.readable \/ file.parse # "ok" THEN {}
    ELSE IF Truthy(file.data) THEN extract_keys_recursive(file.data, {})
    ELSE {}

-----------------------------------------------------------------------------
(* The reference document extractors                                        *)

\* A file of the working directory that a script opens by name
NoFile == [exists |-> FALSE, content |-> ""]
TextFile(content) == [exists |-> TRUE, content |-> content]

\* The fence that opens a block, ```yaml\n, and the text that closes it, \n```
FenceOpen == Grave \o Grave \o Grave \o "yaml\n"
FenceClose == "\n" \o Grave \o Grave \o Grave

\* Where `piece` occurs in content at or after position `from`
Occurrences(content, piece, from) ==
    {p \in from..(Len(content) - Len(piece) + 1) :
        SubSeq(content, p, p + Len(piece) - 1) = piece}

Least(S) == CHOOSE p \in S : \A q \in S : p <= q

RECURSIVE YamlBlocksFrom(_, _)
\* re.findall(r'```yaml\n(.*?)\n```', content, re.DOTALL), searching from
\* position `from`: the leftmost opening fence that some closing text
\* follows, the text up to the nearest such closing, then on from its end
YamlBlocksFrom(content, from) ==
    LET opens == {p \in Occurrences(content, FenceOpen, from) :
                     Occurrences(content, FenceClose, p + Len(FenceOpen)) # {}}
    IN  IF opens = {} THEN <<>>
        ELSE LET p == Least(opens)
                 q == Least(Occurrences(content, FenceClose, p + Len(FenceOpen)))
             IN  <<SubSeq(content, p + Len(FenceOpen), q - 1)>>
                     \o YamlBlocksFrom(content, q + Len(FenceClose))

\* The property names of all fenced yaml blocks
BlockKeywords(content) ==
    LET yaml_blocks == YamlBlocksFrom(content, 1)
    IN  UNION {PropertyNames(yaml_blocks[i]) : i \in 1..Len(yaml_blocks)}

\* \|\s*`([a-zA-Z][a-zA-Z0-9_-]*)`\s*\| tried at p: <<group, end>> in a
\* set, `end` the position after the match, or {} when there is no match
TableCellAt(content, p) ==
    LET q == SkipSpaces(content, p + 1)
        r == SkipIdent(content, q + 1)
        t == SkipSpaces(content, r + 1)
    IN  IF /\ CharAt(content, p) = "|"
           /\ q < Len(content)
           /\ CharAt(content, q) = Grave
           /\ IsAlpha(CharAt(content, q + 1))
           /\ r <= Len(content)
           /\ CharAt(content, r) = Grave
           /\ t <= Len(content)
           /\ CharAt(content, t) = "|"
        THEN {<<SubSeq(content, q + 1, r - 1), t + 1>>}
        ELSE {}

RECURSIVE TableKeywordsFrom(_, _)
\* set(re.findall(r'\|\s*`([a-zA-Z][a-zA-Z0-9_-]*)`\s*\|', content)) from
\* position `from` on: the leftmost match, then on from its end (matches
\* do not overlap, so the bar that closes one cell does not open the next)
TableKeywordsFrom(content, from) ==
    LET starts == {p \in from..Len(content) : TableCellAt(content, p) # {}}
    IN  IF starts = {} THEN {}
        ELSE LET hit == CHOOSE h \in TableCellAt(content, Least(starts)) : TRUE
             IN  {hit[1]} \cup TableKeywordsFrom(content, hit[2])

TableKeywords(content) == TableKeywordsFrom(content, 1)

\* (source-field|target-field):\s*"([^"]+)" tried at p: <<group 2, end>>
FieldMappingAt(content, p) ==
    LET name == IF StartsWith(SubSeq(content, p, Len(content)), "source-field")
                THEN "source-field"
                ELSE IF StartsWith(SubSeq(content, p, Len(content)), "target-field")
                THEN "target-field" ELSE ""
        c == p + Len(name)
        q == SkipSpaces(content, c + 1)
        closing == Occurrences(content, "\"", q + 1)
    IN  IF /\ name # ""
           /\ c <= Len(content)
           /\ CharAt(content, c) = ":"
           /\ q <= Len(content)
           /\ CharAt(content, q) = "\""
           /\ closing # {}
           /\ Least(closing) > q + 1
        THEN {<<SubSeq(content, q + 1, Least(closing) - 1), Least(closing) + 1>>}
        ELSE {}

RECURSIVE FieldMappingsFrom(_, _)
\* The second groups of re.findall(r'(source-field|target-field):\s*"([^"]+)"', content)
\* from position `from` on: the leftmost match, then on from its end
FieldMappingsFrom(content, from) ==
    LET starts == {p \in from..Len(content) : FieldMappingAt(content, p) # {}}
    IN  IF starts = {} THEN {}
        ELSE LET hit == CHOOSE h \in FieldMappingAt(content, Least(starts)) : TRUE
             IN  {hit[1]} \cup FieldMappingsFrom(content, hit[2])

\* for _, field_name in field_mappings: the last part after dots
FieldMappingKeywords(content) ==
    {LastDotSegment(field_name) : field_name \in FieldMappingsFrom(content, 1)}

\* analyze_apex_documentation_gaps.py, extract_documented_keywords
extract_documented_keywords(reference) ==
    IF ~reference.exists THEN {}
    ELSE BlockKeywords(reference.content)
             \cup TableKeywords(reference.content)
             \cup FieldMappingKeywords(reference.content)

\* definitive_apex_keywords.py, get_documented_keywords
get_documented_keywords(reference) ==
    IF ~reference.exists THEN {}
    ELSE BlockKeywords(reference.content) \cup TableKeywords(reference.content)

\* smart_apex_keyword_analysis.py: the set get_true_apex_keywords() returns
get_true_apex_keywords ==
    {"metadata", "id", "name", "version", "description", "type", "author",
     "created-date", "tags", "rule-config", "enrichment", "dataset",
     "scenario", "external-data-config", "rules", "condition", "message",
     "severity", "priority", "enrichments", "enabled", "field-enrichment",
     "lookup-enrichment", "calculation-enrichment", "field-mappings",
     "source-field", "target-field", "default-value", "required",
     "calculations", "calculation-config", "expression", "result-field",
     "field", "lookup-config", "lookup-key", "lookup-dataset", "key-field",
     "data", "data-sources", "data-source-refs", "data-source-ref",
     "connection", "base-url", "endpoints", "cache", "ttlSeconds",
     "maxIdleSeconds", "maxSize", "keyPrefix", "connection-timeout",
     "maxConnectionPoolSize", "minPoolSize", "maxPoolSize", "test-on-borrow",
     "test-while-idle", "validation-query", "operations", "operation-ref",
     "method", "path", "headers", "parameters", "queries", "query-ref",
     "sql", "namedQueries", "pipeline", "steps", "step", "source", "sink",
     "transformation", "rule-groups", "rule-group-references", "rule-refs",
     "rule-ids", "performance", "metrics", "monitoring",
     "statistics-enabled", "metricsEnabled", "cache-enabled",
     "enable-caching", "include-performance-metrics", "error-handling",
     "continue-on-error", "fail-fast", "retry", "retry-attempts",
     "retry-delay", "max-retries", "timeout", "timeoutSeconds", "validation",
     "required-fields", "optional", "mandatoryFields", "configuration",
     "settings", "properties", "format", "encoding", "delimiter",
     "hasHeaderRow", "columnMappings"}

\* definitive_apex_keywords.py: the set get_definitive_apex_keywords() returns
get_definitive_apex_keywords ==
    {"metadata", "data-sources", "data-source-refs", "rule-refs",
     "data-sinks", "categories", "rules", "rule-groups", "enrichments",
     "transformations", "id", "name", "version", "description", "type",
     "author", "created", "last-modified", "tags", "category", "condition",
     "message", "priority", "severity", "enabled", "validation",
     "created-by", "business-domain", "business-owner", "source-system",
     "effective-date", "expiration-date", "custom-properties",
     "required-fields", "field-types", "custom-validators", "target-type",
     "field-mappings", "conditional-mappings", "target-field",
     "mapping-rules", "execution-settings", "lookup-config",
     "calculation-config", "source-field", "transformation", "default-value",
     "required", "transformation-rules", "source-type", "implementation",
     "connection", "cache", "health-check", "authentication", "queries",
     "operations", "endpoints", "topics", "key-patterns", "file-format",
     "circuit-breaker", "response-mapping", "parameter-names",
     "bootstrap-servers", "security-protocol", "sasl-mechanism", "base-path",
     "file-pattern", "polling-interval", "encoding", "connection-pool"}

\* scripts/check_yaml_keyword_coverage.py: YAML_KEYWORDS
YAML_KEYWORDS ==
    {"metadata", "rules", "enrichments", "calculations", "dataSources",
     "configuration", "data", "scenario", "bootstrap", "scenarios",
     "rule-chains", "endpoints", "queries", "name", "version", "description",
     "type", "author", "created-by", "created-date", "domain", "tags",
     "business-domain", "owner", "source", "processing", "logging",
     "performance", "cache-enabled", "cache-ttl", "parallel", "timeout",
     "retry-count", "level", "include-context", "id", "condition", "message",
     "severity", "priority", "error-code", "retry-on-failure",
     "lookup-config", "lookup-key", "lookup-dataset", "field-mappings",
     "source-field", "target-field", "key-field", "required", "inline",
     "external", "endpoint", "connection", "host", "port", "database",
     "username", "password", "baseUrl", "authentication", "keyHeader",
     "keyValue", "enabled", "sourceType", "field", "expression",
     "monitoring", "healthCheckLogging", "defaultConnectionTimeout"}

\* A reference loader that returns nothing when the document is missing
ReferenceFallbackEmpty == {}

\* What extract_keywords_from_reference returns when the document is
\* missing (line 65)
ReferenceFallback == YAML_KEYWORDS

\* scripts/check_yaml_keyword_coverage.py, extract_keywords_from_reference
extract_keywords_from_reference(reference) ==
    IF ~reference.exists THEN ReferenceFallback
    ELSE YAML_KEYWORDS
             \cup BlockKeywords(reference.content)
             \cup FieldMappingKeywords(reference.content)

-----------------------------------------------------------------------------
(* The intermediate file apex_keywords_extracted.txt                        *)

\* extract_apex_keywords.py main, lines 166-170: the section of one category
CategorySection(category, keywords) ==
    IF keywords = <<>> THEN ""
    ELSE "\n" \o ReplaceChar(Upper(category), "_", " ")
              \o " (" \o Str(Len(keywords)) \o "):\n"
              \o Concat([i \in 1..Len(keywords) |-> "  - " \o keywords[i] \o "\n"])

\* extract_apex_keywords.py main, lines 158-175: everything f.write is given
ExtractedFileText(n_files, all_keywords, categories) ==
    "APEX YAML Keywords Extracted from apex-demo Module\n"
        \o Repeat("=", 50) \o "\n\n"
        \o "Total files analyzed: " \o Str(n_files) \o "\n"
        \o "Total unique keywords: " \o Str(Cardinality(all_keywords)) \o "\n\n"
        \o "Keywords by Category:\n"
        \o Repeat("-", 30) \o "\n"
        \o Concat([i \in 1..Len(KeywordCategories) |->
                      CategorySection(KeywordCategories[i],
                                      categories[KeywordCategories[i]])])
        \o "\nComplete Alphabetical List (" \o Str(Cardinality(all_keywords)) \o "):\n"
        \o Repeat("-", 30) \o "\n"
        \o Concat([i \in 1..Cardinality(all_keywords) |->
                      "  - " \o Sorted(all_keywords)[i] \o "\n"])

\* The loop over content.split('\n') (analyze_apex_documentation_gaps.py
\* lines 23-30, and the same loop at smart_apex_keyword_analysis.py lines
\* 181-188): in_alphabetical_section is set at the first header line and
\* never reset; a later line that is no header and starts, stripped, with
\* '- ' gives the keyword after that prefix
ReadAlphabeticalList(lines) ==
    LET headers == {n \in 1..Len(lines) :
                       Contains("Complete Alphabetical List", lines[n])}
        entries == {n \in 1..Len(lines) :
                       /\ n \notin headers
                       /\ \E h \in headers : h < n
                       /\ StartsWith(Strip(lines[n]), "- ")}
    IN  {SubSeq(Strip(lines[n]), 3, Len(Strip(lines[n]))) : n \in entries}

\* analyze_apex_documentation_gaps.py, load_extracted_keywords
load_extracted_keywords(extracted) ==
    IF ~extracted.exists THEN {}
    ELSE ReadAlphabeticalList(SplitLines(extracted.content))

\* analyze_apex_documentation_gaps.py, identify_critical_missing_keywords
critical_keywords ==
    <<"default-value", "field-enrichment", "calculation-config", "result-field",
      "field-mappings", "data-source-ref", "query-ref", "operation-ref", "cache",
      "ttlSeconds", "maxSize", "keyPrefix", "enabled", "required", "parameters",
      "connection", "base-url", "endpoints">>

identify_critical_missing_keywords(missing_keywords) ==
    SelectSeq(critical_keywords, LAMBDA kw : kw \in missing_keywords)

-----------------------------------------------------------------------------
(* smart_apex_keyword_analysis.py: filter_apex_keywords                     *)

\* The `any([...])` that skips a keyword (lines 123-151)
FilterSkips(keyword) ==
    \/ StartsWith(keyword, "get")
    \/ StartsWith(keyword, "find")
    \/ \E suffix \in {"_id", "_name", "_type", "_date", "_status", "_details",
                      "_profile", "_info", "Account", "Bank", "Rate", "Amount",
                      "Currency", "Tier", "Level"} : EndsWith(keyword, suffix)
    \/ keyword \in {"active", "dormant", "prospect", "churned"}
    \/ keyword \in {"equity", "fixed_income", "commodity", "derivative"}
    \/ keyword \in {"nasdaq", "nyse", "cboe", "nymex"}
    \/ keyword \in {"goldman_sachs", "jp_morgan", "deutsche_bank", "barclays", "ubs"}
    \/ \E prefix \in {"customer", "trade", "risk", "settlement"} :
           StartsWith(keyword, prefix) /\ Contains("_", keyword)
    \/ Len(keyword) > 30
    \/ IsDigitStr(ReplaceChar(ReplaceChar(keyword, "-", ""), "_", ""))

\* The test that keeps a keyword (lines 155-167)
FilterKeeps(keyword) ==
    \/ keyword \in get_true_apex_keywords
    \/ \E suffix \in {"-enrichment", "-config", "-ref", "-refs"} :
           EndsWith(keyword, suffix)
    \/ \E prefix \in {"data-", "rule-", "cache-", "connection-", "max-", "min-",
                      "enable-", "include-"} : StartsWith(keyword, prefix)

\* A filter that keeps whatever the skip list lets through
filter_apex_keywords_unskipped(all_keywords) ==
    {keyword \in all_keywords : ~FilterSkips(keyword)}

\* filter_apex_keywords, lines 114-170
filter_apex_keywords(all_keywords) ==
    {keyword \in all_keywords : ~FilterSkips(keyword) /\ FilterKeeps(keyword)}

-----------------------------------------------------------------------------
(* SpecClassify: both classifiers applied to a keyword set                  *)

MaxKeys == 2

\* Keywords the classifiers are tried on: some match several categories,
\* some none, some differ from a pattern only in case.
KeywordPool ==
    {"data-source", "maxSizeBytes", "ttlSeconds", "Cache-TTL", "condition",
     "enabled", "metadata", "name", "custom-field", "query", "xyz",
     "rest-api-url", "DataBase", "price"}

AllMissingPatterns ==
    UNION {Range(MissingPatterns(c)) : c \in Range(MissingPatternOrder)}

\* The classifier's own fixed keyword lists, each as an input, and all at once
FixedLists ==
    {Range(MissingPatterns(c)) : c \in Range(MissingPatternOrder)}
        \cup {AllMissingPatterns}

ClassifierInputs ==
    {K \in SUBSET KeywordPool : Cardinality(K) <= MaxKeys}
        \cup FixedLists
        \cup {Range(KeywordPatterns(c)) : c \in Range(KeywordPatternOrder)}

\* `categories` as each classifier first builds it: every list empty
EmptyMissingCategories == [c \in Range(MissingCategories) |-> <<>>]
EmptyKeywordCategories == [c \in Range(KeywordCategories) |-> <<>>]

ClassifyIdle ==
    /\ c_keywords = {}
    /\ c_done = {}
    /\ c_missing = EmptyMissingCategories
    /\ c_keyword = EmptyKeywordCategories
    /\ c_apex = {}

CategorizeMissing ==
    /\ "categorize_missing_keywords" \notin c_done
    /\ c_missing' = categorize_missing_keywords(c_keywords)
    /\ c_done' = c_done \cup {"categorize_missing_keywords"}
    /\ UNCHANGED <<c_keywords, c_keyword, c_apex>>
    /\ UNCHANGED <<extract_vars, fs_vars, run_vars, tool_vars>>

CategorizeKeywords ==
    /\ "categorize_keywords" \notin c_done
    /\ c_keyword' = categorize_keywords(c_keywords)
    /\ c_done' = c_done \cup {"categorize_keywords"}
    /\ UNCHANGED <<c_keywords, c_missing, c_apex>>
    /\ UNCHANGED <<extract_vars, fs_vars, run_vars, tool_vars>>

FilterApexKeywords ==
    /\ "filter_apex_keywords" \notin c_done
    /\ c_apex' = filter_apex_keywords(c_keywords)
    /\ c_done' = c_done \cup {"filter_apex_keywords"}
    /\ UNCHANGED <<c_keywords, c_missing, c_keyword>>
    /\ UNCHANGED <<extract_vars, fs_vars, run_vars, tool_vars>>


-----------------------------------------------------------------------------
(* SpecExtract: the per-file extractors applied to one file                 *)

MaxDepth == 2

TreeKeys == {"a", "b"}

TreeLeaves == {Null, Scalar("s"), Map(<<>>)}

RECURSIVE Trees(_)
\* Parsed values nested to depth d at most: dicts of one or two distinct
\* keys and lists of one or two elements over the values of depth d - 1
Trees(d) ==
    IF d = 0 THEN TreeLeaves
    ELSE LET sub == Trees(d - 1)
         IN  sub
             \cup {Map(<< <<k, c>> >>) : k \in TreeKeys, c \in sub}
             \cup {Map(<< <<k[1], c>>, <<k[2], l>> >>) :
                       k \in {kk \in TreeKeys \X TreeKeys : kk[1] # kk[2]},
                       c \in sub, l \in TreeLeaves}
             \cup {List(<<c>>) : c \in sub}
             \cup {List(<<c, l>>) : c \in sub, l \in TreeLeaves}

RECURSIVE Render(_)
RECURSIVE RenderItems(_, _)
\* The flow style text of a parsed value, which safe_load reads back as it
Render(data) ==
    CASE data.t = "null" -> "null"
      [] data.t = "scalar" -> IF data.v = "" THEN "''" ELSE data.v
      [] data.t = "number" -> data.v
      [] data.t = "map" -> "{" \o RenderItems(data.items, TRUE) \o "}"
      [] data.t = "list" -> "[" \o RenderItems(data.items, FALSE) \o "]"

RenderItems(items, keyed) ==
    IF items = <<>> THEN ""
    ELSE (IF keyed THEN Head(items)[1] \o ": " \o Render(Head(items)[2])
                   ELSE Render(Head(items)))
         \o (IF Len(items) > 1 THEN ", " ELSE "")
         \o RenderItems(Tail(items), keyed)

\* The sample file of the worked example and the file with custom-field added
SampleYaml ==
    Parsed("metadata:\n  name: \"x\"\n  version: \"1.0\"\n",
           Map(<< <<"metadata",
                    Map(<< <<"name", Scalar("x")>>,
                           <<"version", Scalar("1.0")>> >>)>> >>))

SampleYamlCustom ==
    Parsed("metadata:\n  name: \"x\"\n  version: \"1.0\"\n  custom-field: \"y\"\n",
           Map(<< <<"metadata",
                    Map(<< <<"name", Scalar("x")>>,
                           <<"version", Scalar("1.0")>>,
                           <<"custom-field", Scalar("y")>> >>)>> >>))

\* A file whose lines and whose structure differ: the block scalar holds a
\* line that looks like a property
BlockScalarYaml ==
    Parsed("desc: |\n  note: text\nrules:\n  - id: r1\n    enabled: true\n",
           Map(<< <<"desc", Scalar("note: text\n")>>,
                  <<"rules", List(<< Map(<< <<"id", Scalar("r1")>>,
                                            <<"enabled", Scalar("true")>> >>) >>)>> >>))

\* Files safe_load rejects with yaml.YAMLError: an unclosed quote and flow
\* sequence, a tab as indentation, a second ':' in a plain value
MalformedFiles ==
    {Malformed("metadata:\n  name: \"x\n  version: 1\nrules: [\n"),
     Malformed("name: x\n\tversion: 1\nkey:value\n9lives: no\nlast:"),
     Malformed("a: b: c\n\n  \n  deep-key:\n- x: 1\n")}

\* A file whose scalar the constructor rejects with ValueError
BadDateYaml == Unconstructible("date: 2001-02-30\nname: x\n")

\* A file with a quoted key that ends with a space
PaddedKeyYaml ==
    Parsed("\"id \": 1\n", Map(<< <<"id ", Scalar("1")>> >>))

HandWrittenFiles ==
    {SampleYaml, SampleYamlCustom, BlockScalarYaml, BadDateYaml, Unreadable}
        \cup MalformedFiles

ExtractInputs ==
    HandWrittenFiles \cup {Parsed(Render(d) \o "\n", d) : d \in Trees(MaxDepth)}

ExtractIdle ==
    /\ x_file = Unreadable
    /\ x_done = {}
    /\ x_keywords = {}
    /\ x_regex_used = FALSE
    /\ x_analyzed = {}

ExtractKeywordsFromYaml ==
    /\ "extract_keywords_from_yaml" \notin x_done
    /\ x_keywords' = extract_keywords_from_yaml(x_file)
    /\ x_regex_used' = RegexFallbackTaken(x_file)
    /\ x_done' = x_done \cup {"extract_keywords_from_yaml"}
    /\ UNCHANGED <<x_file, x_analyzed>>
    /\ UNCHANGED <<classify_vars, fs_vars, run_vars, tool_vars>>

AnalyzeYamlFile ==
    /\ "analyze_yaml_file" \notin x_done
    /\ x_analyzed' = analyze_yaml_file(x_file)
    /\ x_done' = x_done \cup {"analyze_yaml_file"}
    /\ UNCHANGED <<x_file, x_keywords, x_regex_used>>
    /\ UNCHANGED <<classify_vars, fs_vars, run_vars, tool_vars>>

-----------------------------------------------------------------------------
(* Spec: the scripts run one after another in one working directory         *)

MaxFiles == 2

\* The reference document of the worked example: one fenced yaml block
\* holding only `name:` and `version:`
WorkedReference == TextFile("# APEX\n\n~~~yaml\nname:\nversion:\n~~~\n")

\* A reference document with a block, a field mapping and a table row
FullReference ==
    TextFile("~~~yaml\nmetadata:\n  name: \"x\"\nrules:\n  - id: r\n"
                 \o "    source-field: \"a.price\"\n~~~\n\n| ~enabled~ | on |\n")

ReferenceInputs == {NoFile, WorkedReference, FullReference}

\* Files that parse, a file that cannot be opened, a file safe_load rejects
\* with yaml.YAMLError and one it rejects with another exception
YamlFileInputs ==
    {SampleYaml, SampleYamlCustom, Unreadable, BadDateYaml, PaddedKeyYaml,
     Malformed("name: x\n\tversion: 1\nkey:value\n9lives: no\nlast:")}

\* The YAML files a directory can hold, as find_yaml_files lists them
YamlFileLists ==
    UNION {[1..n -> YamlFileInputs] : n \in 0..MaxFiles}

\* The loading patterns _analyze_loading_pattern gave the demo classes that
\* _find_demo_classes returns (scripts/analyze_demo_yaml_files.py)
LoadingPatternInputs ==
    {<<>>, <<"standard_apex_loader">>, <<"custom_loader", "configuration_method">>,
     <<"standard_apex_loader", "unknown">>}

\* The keys of `patterns` in _analyze_patterns
PatternCounters ==
    {"standard_apex_loader", "custom_loader", "configuration_method",
     "error_handling", "multiple_yaml_files", "single_yaml_file", "no_yaml_files"}

\* The locals of a main before its first assignment
EmptyLocals ==
    [all_keywords |-> {}, file_keywords |-> <<>>,
     categories |-> EmptyKeywordCategories,
     extracted_keywords |-> {}, documented_keywords |-> {},
     missing_keywords |-> {}, documented_but_unused |-> {},
     categorized_missing |-> EmptyMissingCategories,
     apex_keywords |-> {}, documented_apex_keywords |-> {},
     documented_but_not_core |-> {}, well_documented |-> {},
     reference_keywords |-> {}, covered_keywords |-> {},
     file_coverage |-> <<>>, covered_reference_keywords |-> {},
     demo_classes |-> <<>>, patterns |-> <<>>,
     returned |-> [items |-> 0, mappings |-> <<>>, existing_yaml_files |-> {}]]

\* No script is running
AtShell ==
    /\ script = "none"
    /\ pc = "shell"
    /\ yaml_i = 0
    /\ locals = EmptyLocals
    /\ diagnostics = <<>>
    /\ counts = <<>>
    /\ written = {}
    /\ exit_code = 0

\* The working directory of the specifications that run no script
NoWorkingDirectory ==
    /\ fs_demo = FALSE
    /\ fs_yaml = <<>>
    /\ fs_reference = NoFile
    /\ fs_extracted = NoFile

\* An accumulator that keeps the last file's keywords only
UpdateKeywordsOverwrite(all_keywords, keywords) == keywords

\* all_keywords.update(keywords) (extract_apex_keywords.py line 132;
\* covered_keywords.update(keywords), check_yaml_keyword_coverage.py line 162)
UpdateKeywords(all_keywords, keywords) == all_keywords \cup keywords

\* A gap that keeps what either side lacks
GapSymmetric(found, documented) ==
    (found \ documented) \cup (documented \ found)

\* The set difference of the gap computations
\* (analyze_apex_documentation_gaps.py lines 168-169,
\* smart_apex_keyword_analysis.py lines 222-223,
\* definitive_apex_keywords.py lines 146-147)
Gap(found, documented) == found \ documented

\* The process ends: main returned (status 0 unless its value is given to
\* exit) or an exception reached the top level (status 1)
Exits(code) ==
    /\ pc' = "exited"
    /\ exit_code' = code

\* ---- extract_apex_keywords.py

\* main, lines 113-128: the directory test, find_yaml_files, the empty
\* accumulators
ExtractMainStart ==
    /\ pc = "shell"
    /\ script' = "extract_apex_keywords.py"
    /\ IF ~fs_demo
       THEN /\ diagnostics' = <<"Error: apex-demo directory not found">>
            /\ Exits(0)
            /\ UNCHANGED counts
       ELSE /\ counts' = << <<"YAML files in apex-demo", Len(fs_yaml)>> >>
            /\ pc' = "files"
            /\ UNCHANGED <<diagnostics, exit_code>>
    /\ UNCHANGED <<yaml_i, locals, written>>
    /\ UNCHANGED <<classify_vars, extract_vars, fs_vars, tool_vars>>

\* main, lines 130-134: one turn of the loop over yaml_files
ExtractMainNextFile ==
    /\ script = "extract_apex_keywords.py"
    /\ pc = "files"
    /\ yaml_i < Len(fs_yaml)
    /\ LET keywords == extract_keywords_from_yaml(fs_yaml[yaml_i + 1])
       IN  /\ locals' = [locals EXCEPT
                 !.all_keywords = UpdateKeywords(@, keywords),
                 !.file_keywords = Append(@, keywords)]
           /\ counts' = Append(counts, <<"keywords", Cardinality(keywords)>>)
    /\ yaml_i' = yaml_i + 1
    /\ UNCHANGED <<script, pc, diagnostics, written, exit_code>>
    /\ UNCHANGED <<classify_vars, extract_vars, fs_vars, tool_vars>>

\* main, lines 136-177: the categories, the printed lists and the file
ExtractMainReport ==
    /\ script = "extract_apex_keywords.py"
    /\ pc = "files"
    /\ yaml_i = Len(fs_yaml)
    /\ LET categories == categorize_keywords(locals.all_keywords)
       IN  /\ locals' = [locals EXCEPT !.categories = categories]
           /\ fs_extracted' =
                  TextFile(ExtractedFileText(Len(fs_yaml), locals.all_keywords,
                                             categories))
    /\ counts' = Append(counts, <<"Total unique keywords found",
                                  Cardinality(locals.all_keywords)>>)
    /\ written' = {"apex_keywords_extracted.txt"}
    /\ Exits(0)
    /\ UNCHANGED <<script, yaml_i, diagnostics>>
    /\ UNCHANGED <<classify_vars, extract_vars, fs_demo, fs_yaml, fs_reference, tool_vars>>

\* ---- analyze_apex_documentation_gaps.py

\* main, lines 155-242.  Neither loader can end the run: each prints its
\* error and returns set().
GapsMain ==
    /\ pc = "shell"
    /\ script' = "analyze_apex_documentation_gaps.py"
    /\ LET extracted_keywords == load_extracted_keywords(fs_extracted)
           documented_keywords == extract_documented_keywords(fs_reference)
           missing_keywords == Gap(extracted_keywords, documented_keywords)
           documented_but_unused == Gap(documented_keywords, extracted_keywords)
           critical_missing == identify_critical_missing_keywords(missing_keywords)
       IN  /\ locals' = [locals EXCEPT
                 !.extracted_keywords = extracted_keywords,
                 !.documented_keywords = documented_keywords,
                 !.missing_keywords = missing_keywords,
                 !.documented_but_unused = documented_but_unused,
                 !.categorized_missing = categorize_missing_keywords(missing_keywords)]
           /\ diagnostics' =
                  (IF fs_extracted.exists THEN <<>>
                   ELSE <<"Error: apex_keywords_extracted.txt not found. Run extract_apex_keywords.py first.">>)
                  \o (IF fs_reference.exists THEN <<>>
                      ELSE <<"Error: docs/APEX_YAML_REFERENCE.md not found.">>)
           /\ counts' =
                  << <<"Keywords found in apex-demo", Cardinality(extracted_keywords)>>,
                     <<"Keywords documented in APEX_YAML_REFERENCE.md",
                       Cardinality(documented_keywords)>>,
                     <<"Missing from documentation", Cardinality(missing_keywords)>>,
                     <<"Documented but not used", Cardinality(documented_but_unused)>>,
                     <<"CRITICAL Missing Keywords", Len(critical_missing)>> >>
    /\ written' = {"apex_documentation_gaps.txt"}
    /\ Exits(0)
    /\ UNCHANGED yaml_i
    /\ UNCHANGED <<classify_vars, extract_vars, fs_vars, tool_vars>>

\* ---- smart_apex_keyword_analysis.py

\* main, lines 172-292.  Each FileNotFoundError handler prints and returns
\* from main.
SmartMain ==
    /\ pc = "shell"
    /\ script' = "smart_apex_keyword_analysis.py"
    /\ LET all_keywords == ReadAlphabeticalList(SplitLines(fs_extracted.content))
           apex_keywords == filter_apex_keywords(all_keywords)
           documented_keywords == BlockKeywords(fs_reference.content)
           documented_apex_keywords == filter_apex_keywords(documented_keywords)
           missing_keywords == Gap(apex_keywords, documented_apex_keywords)
           documented_but_unused == Gap(documented_apex_keywords, apex_keywords)
       IN  IF ~fs_extracted.exists
           THEN /\ diagnostics' = <<"Error: Run extract_apex_keywords.py first">>
                /\ UNCHANGED <<locals, counts, written>>
           ELSE IF ~fs_reference.exists
           THEN /\ diagnostics' = <<"Error: APEX_YAML_REFERENCE.md not found">>
                /\ locals' = [locals EXCEPT
                      !.all_keywords = all_keywords,
                      !.apex_keywords = apex_keywords]
                /\ counts' =
                       << <<"Total keywords extracted", Cardinality(all_keywords)>>,
                          <<"True APEX syntax keywords", Cardinality(apex_keywords)>> >>
                /\ UNCHANGED written
           ELSE /\ locals' = [locals EXCEPT
                      !.all_keywords = all_keywords,
                      !.apex_keywords = apex_keywords,
                      !.documented_keywords = documented_keywords,
                      !.documented_apex_keywords = documented_apex_keywords,
                      !.missing_keywords = missing_keywords,
                      !.documented_but_unused = documented_but_unused,
                      !.well_documented = apex_keywords \cap documented_apex_keywords]
                /\ counts' =
                       << <<"Total keywords extracted", Cardinality(all_keywords)>>,
                          <<"True APEX syntax keywords", Cardinality(apex_keywords)>>,
                          <<"Documented APEX keywords",
                            Cardinality(documented_apex_keywords)>>,
                          <<"REAL Missing Keywords", Cardinality(missing_keywords)>>,
                          <<"Documented but unused",
                            Cardinality(documented_but_unused)>> >>
                /\ written' = {"smart_apex_analysis.txt"}
                /\ UNCHANGED diagnostics
    /\ Exits(0)
    /\ UNCHANGED yaml_i
    /\ UNCHANGED <<classify_vars, extract_vars, fs_vars, tool_vars>>

\* ---- definitive_apex_keywords.py

\* main, lines 133-236
DefinitiveMain ==
    /\ pc = "shell"
    /\ script' = "definitive_apex_keywords.py"
    /\ LET apex_keywords == get_definitive_apex_keywords
           documented_keywords == get_documented_keywords(fs_reference)
           missing_keywords == Gap(apex_keywords, documented_keywords)
           documented_but_not_core == Gap(documented_keywords, apex_keywords)
           well_documented == apex_keywords \cap documented_keywords
       IN  /\ locals' = [locals EXCEPT
                 !.apex_keywords = apex_keywords,
                 !.documented_keywords = documented_keywords,
                 !.missing_keywords = missing_keywords,
                 !.documented_but_not_core = documented_but_not_core,
                 !.well_documented = well_documented]
           /\ counts' =
                  << <<"Definitive APEX keywords (from @JsonProperty)",
                       Cardinality(apex_keywords)>>,
                     <<"Documented keywords", Cardinality(documented_keywords)>>,
                     <<"Missing from documentation", Cardinality(missing_keywords)>>,
                     <<"Documented but not in core",
                       Cardinality(documented_but_not_core)>>,
                     <<"Well documented", Cardinality(well_documented)>> >>
    /\ diagnostics' = (IF fs_reference.exists THEN <<>>
                       ELSE <<"Error: docs/APEX_YAML_REFERENCE.md not found">>)
    /\ written' = {"definitive_apex_keywords.txt"}
    /\ Exits(0)
    /\ UNCHANGED yaml_i
    /\ UNCHANGED <<classify_vars, extract_vars, fs_vars, tool_vars>>

\* ---- scripts/check_yaml_keyword_coverage.py

\* main, lines 138-158: the reference keywords, the directory test,
\* find_yaml_files, the empty accumulators
CoverageMainStart ==
    /\ pc = "shell"
    /\ script' = "check_yaml_keyword_coverage.py"
    /\ LET reference_keywords == extract_keywords_from_reference(fs_reference)
       IN  /\ locals' = [locals EXCEPT !.reference_keywords = reference_keywords]
           /\ diagnostics' =
                  (IF fs_reference.exists THEN <<>>
                   ELSE <<"Warning: docs/APEX_YAML_REFERENCE.md not found">>)
                  \o (IF fs_demo THEN <<>>
                      ELSE <<"Error: apex-demo directory not found">>)
           /\ counts' =
                  << <<"keywords in APEX_YAML_REFERENCE.md",
                       Cardinality(reference_keywords)>> >>
                  \o (IF fs_demo
                      THEN << <<"YAML files in apex-demo", Len(fs_yaml)>> >>
                      ELSE <<>>)
    /\ IF fs_demo
       THEN pc' = "files" /\ UNCHANGED exit_code
       ELSE Exits(0)
    /\ UNCHANGED <<yaml_i, written>>
    /\ UNCHANGED <<classify_vars, extract_vars, fs_vars, tool_vars>>

\* main, lines 160-164: one turn of the loop over yaml_files
CoverageMainNextFile ==
    /\ script = "check_yaml_keyword_coverage.py"
    /\ pc = "files"
    /\ yaml_i < Len(fs_yaml)
    /\ LET keywords == analyze_yaml_file(fs_yaml[yaml_i + 1])
       IN  locals' = [locals EXCEPT
               !.covered_keywords = UpdateKeywords(@, keywords),
               !.file_coverage = Append(@, keywords)]
    /\ diagnostics' =
           (IF fs_yaml[yaml_i + 1].readable /\ fs_yaml[yaml_i + 1].parse = "ok"
            THEN diagnostics
            ELSE Append(diagnostics, "Error analyzing " \o Str(yaml_i + 1)))
    /\ yaml_i' = yaml_i + 1
    /\ UNCHANGED <<script, pc, counts, written, exit_code>>
    /\ UNCHANGED <<classify_vars, extract_vars, fs_vars, tool_vars>>

\* main, lines 166-259: the statistics and the printed report.  The
\* division of line 169 raises ZeroDivisionError on an empty reference set.
CoverageMainReport ==
    /\ script = "check_yaml_keyword_coverage.py"
    /\ pc = "files"
    /\ yaml_i = Len(fs_yaml)
    /\ LET covered_reference_keywords ==
               locals.reference_keywords \cap locals.covered_keywords
           missing_keywords == locals.reference_keywords \ locals.covered_keywords
       IN  /\ locals' = [locals EXCEPT
                 !.covered_reference_keywords = covered_reference_keywords,
                 !.missing_keywords = missing_keywords]
           /\ IF locals.reference_keywords = {}
              THEN /\ diagnostics' = Append(diagnostics, "ZeroDivisionError")
                   /\ Exits(1)
                   /\ UNCHANGED counts
              ELSE /\ counts' = counts \o
                          << <<"Total reference keywords",
                               Cardinality(locals.reference_keywords)>>,
                             <<"Covered keywords",
                               Cardinality(covered_reference_keywords)>>,
                             <<"Missing keywords", Cardinality(missing_keywords)>> >>
                   /\ Exits(0)
                   /\ UNCHANGED diagnostics
    /\ UNCHANGED <<script, yaml_i, written>>
    /\ UNCHANGED <<classify_vars, extract_vars, fs_vars, tool_vars>>

\* ---- scripts/analyze_demo_yaml_files.py

\* _assess_documentation_quality, for a metadata dict
assess_documentation_quality(content, metadata) ==
    LET score == (IF StartsWith(content, "#") THEN 1 ELSE 0)
                 + (IF Truthy(metadata)
                    THEN 1 + Cardinality({field \in {"name", "description",
                                                     "version", "type"} :
                                              HasKey(metadata, field)})
                    ELSE 0)
                 + (IF Truthy(Get(metadata, "tags")) THEN 1 ELSE 0)
    IN  IF score >= 6 THEN "excellent"
        ELSE IF score >= 4 THEN "good"
        ELSE IF score >= 2 THEN "fair"
        ELSE "poor"

\* The metadata _analyze_yaml_file takes from a file it has read: {} after
\* yaml.YAMLError and for an empty document, yaml_data.get('metadata', {})
\* otherwise
AnalyzedMetadata(file) ==
    IF file.parse = "YAMLError" \/ ~Truthy(file.data) THEN Map(<<>>)
    ELSE IF HasKey(file.data, "metadata") THEN Get(file.data, "metadata")
    ELSE Map(<<>>)

\* Whether _analyze_yaml_file returns a YamlFileInfo: an exception other
\* than yaml.YAMLError (the file cannot be read, the constructor rejects a
\* scalar, .get is called on a document or a metadata that is no dict)
\* makes it return None
IsAnalyzed(file) ==
    /\ file.readable
    /\ file.parse # "error"
    /\ (file.parse = "ok" /\ Truthy(file.data)) => file.data.t = "map"
    /\ AnalyzedMetadata(file).t = "map"

\* _analyze_yaml_files: the YamlFileInfo of each file, None left out
analyze_yaml_files(files) ==
    LET analyzed == SelectSeq(files, IsAnalyzed)
    IN  [i \in 1..Len(analyzed) |->
            [metadata |-> AnalyzedMetadata(analyzed[i]),
             documentation_quality |->
                 assess_documentation_quality(analyzed[i].content,
                                              AnalyzedMetadata(analyzed[i]))]]

\* The DemoClassInfo of a class with the given loading pattern, without
\* error handling, whose loadFromClasspath call names a file that exists
DemoClassInfo(loading_pattern) ==
    [loading_pattern |-> loading_pattern,
     error_handling |-> FALSE,
     yaml_files |-> IF loading_pattern \in {"standard_apex_loader", "custom_loader"}
                    THEN <<"config.yaml">> ELSE <<>>,
     yaml_files_exist |-> TRUE]

\* What a division leaves when the divisor is 0
ZeroDivisionError == -1

\* a / b * 100, to the whole number below
Percentage(a, b) == IF b = 0 THEN ZeroDivisionError ELSE (a * 100) \div b

RECURSIVE Sum(_)
Sum(numbers) == IF numbers = <<>> THEN 0 ELSE Head(numbers) + Sum(Tail(numbers))

\* A score that divides whatever max_points is
calculate_consistency_score_unguarded(demo_classes, yaml_files) ==
    Percentage(0, 4 * Len(demo_classes) + 2 * Len(yaml_files))

\* _calculate_consistency_score, lines 339-377
calculate_consistency_score(demo_classes, yaml_files) ==
    LET class_points ==
            [i \in 1..Len(demo_classes) |->
                (IF demo_classes[i].loading_pattern = "standard_apex_loader"
                 THEN 1 ELSE 0)
                + (IF demo_classes[i].error_handling THEN 1 ELSE 0)
                + (IF demo_classes[i].yaml_files # <<>> THEN 1 ELSE 0)
                + (IF demo_classes[i].yaml_files_exist THEN 1 ELSE 0)]
        file_points ==
            [i \in 1..Len(yaml_files) |->
                (IF yaml_files[i].documentation_quality \in {"excellent", "good"}
                 THEN 1 ELSE 0)
                + (IF Truthy(yaml_files[i].metadata) THEN 1 ELSE 0)]
        total_points == Sum(class_points) + Sum(file_points)
        max_points == 4 * Len(demo_classes) + 2 * Len(yaml_files)
    IN  IF max_points > 0 THEN Percentage(total_points, max_points) ELSE 0

\* The number of classes that `test` holds of
CountClasses(demo_classes, test(_)) ==
    Cardinality({i \in 1..Len(demo_classes) : test(demo_classes[i])})

\* _analyze_patterns, lines 311-337: the counters when every class has a
\* loading pattern that is a key of `patterns`
analyze_patterns(demo_classes) ==
    [counter \in PatternCounters |->
        IF counter = "error_handling"
        THEN CountClasses(demo_classes, LAMBDA c : c.error_handling)
        ELSE IF counter = "no_yaml_files"
        THEN CountClasses(demo_classes, LAMBDA c : Len(c.yaml_files) = 0)
        ELSE IF counter = "single_yaml_file"
        THEN CountClasses(demo_classes, LAMBDA c : Len(c.yaml_files) = 1)
        ELSE IF counter = "multiple_yaml_files"
        THEN CountClasses(demo_classes, LAMBDA c : Len(c.yaml_files) > 1)
        ELSE CountClasses(demo_classes, LAMBDA c : c.loading_pattern = counter)]

\* main, lines 475-516, run without arguments; its value is the exit status
\* (line 520).  _analyze_patterns (line 323) indexes its counters by each
\* class's loading pattern and raises KeyError on one that is no counter.
DemoAnalysisMain ==
    /\ pc = "shell"
    /\ script' = "analyze_demo_yaml_files.py"
    /\ IF ~fs_demo
       THEN /\ diagnostics' = <<"Error: apex-demo directory not found at apex-demo">>
            /\ Exits(1)
            /\ UNCHANGED <<counts, written, locals>>
       ELSE \E loading_patterns \in LoadingPatternInputs :
                LET demo_classes == [i \in 1..Len(loading_patterns) |->
                                        DemoClassInfo(loading_patterns[i])]
                    yaml_files == analyze_yaml_files(fs_yaml)
                    consistency_score ==
                        calculate_consistency_score(demo_classes, yaml_files)
                IN  IF ~(Range(loading_patterns) \subseteq PatternCounters)
                    THEN /\ counts' = << <<"demo classes", Len(demo_classes)>>,
                                         <<"YAML files", Len(yaml_files)>> >>
                         /\ diagnostics' = <<"KeyError">>
                         /\ locals' = [locals EXCEPT !.demo_classes = demo_classes]
                         /\ Exits(1)
                         /\ UNCHANGED written
                    ELSE IF consistency_score = ZeroDivisionError
                    THEN /\ counts' = << <<"demo classes", Len(demo_classes)>>,
                                         <<"YAML files", Len(yaml_files)>> >>
                         /\ diagnostics' = <<"ZeroDivisionError">>
                         /\ locals' = [locals EXCEPT
                               !.demo_classes = demo_classes,
                               !.patterns = analyze_patterns(demo_classes)]
                         /\ Exits(1)
                         /\ UNCHANGED written
                    ELSE /\ counts' = << <<"demo classes", Len(demo_classes)>>,
                                         <<"YAML files", Len(yaml_files)>>,
                                         <<"Consistency Score", consistency_score>> >>
                         /\ locals' = [locals EXCEPT
                               !.demo_classes = demo_classes,
                               !.patterns = analyze_patterns(demo_classes)]
                         /\ written' = {"demo_yaml_analysis.md"}
                         /\ Exits(0)
                         /\ UNCHANGED diagnostics
    /\ UNCHANGED yaml_i
    /\ UNCHANGED <<classify_vars, extract_vars, fs_vars, tool_vars>>

\* The process is gone; the next script starts with fresh locals
\* The demo classes of apex-demo with the YAML paths their sources name, and
\* the YAML files under its resources (scripts/fixed_yaml_mapping.py)
MappingClassInputs ==
    {<<>>,
     <<[class_name |-> "Plain", yaml_files |-> {}]>>,
     <<[class_name |-> "TradeDemo",
        yaml_files |-> {"demo/trade.yaml", "config/rules.yaml"}],
       [class_name |-> "Plain", yaml_files |-> {}]>>}

MappingResourceInputs == {{}, {"demo/trade.yaml"}}

\* The entry lines 73-91 append for a class that names YAML files
ClassMapping(class, existing_yaml_files) ==
    [class_name |-> class.class_name,
     yaml_files |-> Sorted(class.yaml_files),
     existing_files |-> SelectSeq(Sorted(class.yaml_files),
                                  LAMBDA f : f \in existing_yaml_files),
     missing_files |-> SelectSeq(Sorted(class.yaml_files),
                                 LAMBDA f : f \notin existing_yaml_files)]

\* lines 40-95: the entries of the classes in the order they are found
RECURSIVE ClassMappings(_, _)
ClassMappings(classes, existing_yaml_files) ==
    IF classes = <<>> THEN <<>>
    ELSE (IF Head(classes).yaml_files # {}
          THEN <<ClassMapping(Head(classes), existing_yaml_files)>> ELSE <<>>)
         \o ClassMappings(Tail(classes), existing_yaml_files)

\* find_class_yaml_mappings, lines 13-97. `items` is the number of items of
\* the returned sequence: the list of line 23 has none, the tuple of line 97
\* has the two that `mappings` and `existing_yaml_files` name.
find_class_yaml_mappings(demo_root_exists, classes, resources) ==
    IF ~demo_root_exists
    THEN [items |-> 0, mappings |-> <<>>, existing_yaml_files |-> {}]
    ELSE [items |-> 2, mappings |-> ClassMappings(classes, resources),
          existing_yaml_files |-> resources]

\* main of fixed_yaml_mapping.py, lines 100-172, run as exit(main())
MappingMain ==
    /\ pc = "shell"
    /\ script' = "fixed_yaml_mapping.py"
    /\ \E classes \in MappingClassInputs, resources \in MappingResourceInputs :
           LET returned == find_class_yaml_mappings(fs_demo, classes, resources)
           IN  /\ locals' = [locals EXCEPT !.returned = returned]
               /\ IF returned.items # 2
                  THEN \* line 105 unpacks two values
                       /\ diagnostics' =
                              (IF fs_demo THEN <<>>
                               ELSE <<"Error: apex-demo directory not found">>)
                              \o <<"ValueError">>
                       /\ Exits(1)
                       /\ UNCHANGED <<counts, written>>
                  ELSE IF returned.mappings = <<>>
                  THEN /\ diagnostics' = <<"No demo classes with YAML files found">>
                       /\ Exits(1)
                       /\ UNCHANGED <<counts, written>>
                  ELSE /\ counts' =
                              << <<"demo classes", Len(returned.mappings)>>,
                                 <<"YAML files in resources",
                                   Cardinality(returned.existing_yaml_files)>> >>
                       /\ written' = {"fixed_class_yaml_mapping.csv"}
                       /\ Exits(0)
                       /\ UNCHANGED diagnostics
    /\ UNCHANGED yaml_i
    /\ UNCHANGED <<classify_vars, extract_vars, fs_vars, tool_vars>>

ReturnToShell ==
    /\ pc = "exited"
    /\ script' = "none"
    /\ pc' = "shell"
    /\ yaml_i' = 0
    /\ locals' = EmptyLocals
    /\ diagnostics' = <<>>
    /\ counts' = <<>>
    /\ written' = {}
    /\ exit_code' = 0
    /\ UNCHANGED <<classify_vars, extract_vars, fs_vars, tool_vars>>

-----------------------------------------------------------------------------
(* scripts/validate_yaml_files.py: the per-file validator                   *)

\* The same constant with the four fields of the module docstring
REQUIRED_METADATA_FIELDS_DOCSTRING == {"name", "version", "description", "type"}

REQUIRED_METADATA_FIELDS == {"id", "name", "version", "description", "type"}

VALID_FILE_TYPES ==
    {"scenario", "scenario-registry", "bootstrap", "rule-config",
     "dataset", "enrichment", "rule-chain", "external-data-config"}

TYPE_SPECIFIC_REQUIRED_FIELDS ==
    [file_type \in VALID_FILE_TYPES |->
        CASE file_type = "scenario" -> {"business-domain", "owner"}
          [] file_type = "scenario-registry" -> {"created-by"}
          [] file_type = "bootstrap" -> {"business-domain", "created-by"}
          [] file_type = "dataset" -> {"source"}
          [] OTHER -> {"author"}]

TYPE_REQUIRED_SECTIONS ==
    [file_type \in VALID_FILE_TYPES |->
        CASE file_type = "rule-config" -> {"rules", "enrichments"}
          [] file_type = "enrichment" -> {"enrichments"}
          [] file_type = "dataset" -> {"data"}
          [] file_type = "scenario" ->
                 {"scenario", "data-types", "rule-configurations"}
          [] file_type = "scenario-registry" -> {"scenarios"}
          [] file_type = "bootstrap" -> {"bootstrap", "data-sources"}
          [] file_type = "rule-chain" -> {"rule-chains"}
          [] file_type = "external-data-config" ->
                 {"dataSources", "configuration"}]

\* The position \d* reaches from position p
SkipDigits(s, p) ==
    CHOOSE q \in p..(Len(s) + 1) :
        /\ \A j \in p..(q - 1) : IsDigit(CharAt(s, j))
        /\ (q = Len(s) + 1 \/ ~IsDigit(CharAt(s, q)))

\* The position [a-zA-Z0-9\-\.]* reaches from position p
SkipVersionChars(s, p) ==
    CHOOSE q \in p..(Len(s) + 1) :
        /\ \A j \in p..(q - 1) :
               IsAlpha(CharAt(s, j)) \/ IsDigit(CharAt(s, j))
                   \/ CharAt(s, j) \in {"-", "."}
        /\ (q = Len(s) + 1
               \/ ~(IsAlpha(CharAt(s, q)) \/ IsDigit(CharAt(s, q))
                       \/ CharAt(s, q) \in {"-", "."}))

\* The character at position p, '' past the end
At(s, p) == IF p >= 1 /\ p <= Len(s) THEN CharAt(s, p) ELSE ""

\* Where an optional group that starts at p and whose + would reach q ends:
\* q if the + consumed a character, p (the group is skipped) otherwise
GroupEnd(p, q) == IF q > p + 1 THEN q ELSE p

\* $ at position p: the end, or one final newline before it
MatchesEnd(s, p) == p = Len(s) + 1 \/ (p = Len(s) /\ At(s, p) = "\n")

\* (\+[a-zA-Z0-9\-\.]+)?$ from position p
MatchesBuild(s, p) ==
    MatchesEnd(s, IF At(s, p) = "+"
                  THEN GroupEnd(p, SkipVersionChars(s, p + 1)) ELSE p)

\* (-[a-zA-Z0-9\-\.]+)? and the rest from position p
MatchesPreRelease(s, p) ==
    MatchesBuild(s, IF At(s, p) = "-"
                    THEN GroupEnd(p, SkipVersionChars(s, p + 1)) ELSE p)

\* (\.\d+)? and the rest from position p
MatchesPatch(s, p) ==
    MatchesPreRelease(s, IF At(s, p) = "."
                         THEN GroupEnd(p, SkipDigits(s, p + 1)) ELSE p)

\* \.\d+ and the rest from position p
MatchesMinor(s, p) ==
    /\ At(s, p) = "."
    /\ GroupEnd(p, SkipDigits(s, p + 1)) > p
    /\ MatchesPatch(s, SkipDigits(s, p + 1))

\* SEMANTIC_VERSION_PATTERN.match(version), for a str:
\* ^\d+\.\d+(\.\d+)?(-[a-zA-Z0-9\-\.]+)?(\+[a-zA-Z0-9\-\.]+)?$
\* No character that may follow a part can continue it, so the greedy
\* reading is the only one.
SemanticVersionMatch(version) ==
    /\ SkipDigits(version, 1) > 1
    /\ MatchesMinor(version, SkipDigits(version, 1))

\* A fresh ValidationResult (lines 71-77).  errors and warnings hold the
\* messages of the two lists: no message is added twice, and the order of
\* those added in a loop over a set is the set's iteration order.
ValidationResult ==
    [errors |-> {}, warnings |-> {}, is_valid |-> TRUE, document_type |-> Null]

\* add_error without line 81
add_error_appending(result, message) ==
    [result EXCEPT !.errors = @ \cup {message}]

\* ValidationResult.add_error, lines 79-81
add_error(result, message) ==
    [result EXCEPT !.errors = @ \cup {message}, !.is_valid = FALSE]

\* ValidationResult.add_warning, lines 83-84
add_warning(result, message) ==
    [result EXCEPT !.warnings = @ \cup {message}]

\* ValidationResult.set_document_type, lines 86-87
set_document_type(result, doc_type) ==
    [result EXCEPT !.document_type = doc_type]

add_errors(result, messages) ==
    IF messages = {} THEN result
    ELSE [result EXCEPT !.errors = @ \cup messages, !.is_valid = FALSE]

add_warnings(result, messages) ==
    [result EXCEPT !.warnings = @ \cup messages]

\* What a call leaves: the exception that left it ("" when it returned),
\* the ValidationResult and the value returned
Returned(result, value) == [raised |-> "", result |-> result, value |-> value]
Raised(exception, result) == [raised |-> exception, result |-> result, value |-> Null]

\* isinstance(value, str) and value.strip()
NonEmptyString(value) == value.t = "scalar" /\ Strip(value.v) # ""

\* load_yaml_file: None for a file that cannot be read or parsed, and for
\* an empty document
load_yaml_file(file) ==
    IF file.readable /\ file.parse = "ok" THEN file.data ELSE Null

\* validate_version_format's only test is the match, which raises TypeError
\* on a version that is no str
validate_version_format(version, result) ==
    IF version.t # "scalar" THEN Raised("TypeError", result)
    ELSE IF ~SemanticVersionMatch(version.v)
    THEN Returned(add_warnings(result,
             {"Version should follow semantic versioning format (e.g., 1.0.0): "
                  \o version.v}), Null)
    ELSE Returned(result, Null)

\* The loop over REQUIRED_METADATA_FIELDS alone, over a metadata dict and a
\* set of required fields
RequiredFieldErrors(metadata, required) ==
    {"Missing required metadata field: " \o field :
         field \in {f \in required : ~HasKey(metadata, f)}}
    \cup {"Metadata field '" \o field \o "' must be a non-empty string" :
         field \in {f \in required :
                        HasKey(metadata, f) /\ ~NonEmptyString(Get(metadata, f))}}

\* validate_metadata_fields, lines 145-150: `file_type not in
\* VALID_FILE_TYPES` hashes file_type and raises TypeError on a list or dict
ValidateFileType(file_type, result) ==
    IF ~Truthy(file_type) THEN Returned(result, file_type)
    ELSE IF file_type.t \in {"map", "list"} THEN Raised("TypeError", result)
    ELSE IF file_type.t = "scalar" /\ file_type.v \in VALID_FILE_TYPES
    THEN Returned(result, file_type)
    ELSE Returned(add_error(result, "Invalid file type: " \o file_type.v),
                  file_type)

\* validate_metadata_fields, lines 140-143
ValidateVersion(version, result) ==
    IF Truthy(version) THEN validate_version_format(version, result)
    ELSE Returned(result, Null)

\* What follows a call that may have raised
Then(call, file_type) ==
    IF call.raised # "" THEN call ELSE ValidateFileType(file_type, call.result)

\* validate_metadata_fields, for a metadata that is truthy.  On a str or a
\* list the `in` tests work and the first .get raises AttributeError (line
\* 136 or 141); on a number `field not in metadata` raises TypeError.
validate_metadata_fields(metadata, result) ==
    IF metadata.t = "number" THEN Raised("TypeError", result)
    ELSE IF metadata.t # "map" THEN Raised("AttributeError", result)
    ELSE Then(ValidateVersion(Get(metadata, "version"),
                  add_errors(result,
                      RequiredFieldErrors(metadata, REQUIRED_METADATA_FIELDS))),
              Get(metadata, "type"))

\* validate_type_specific_fields, for a metadata dict and a hashable type
validate_type_specific_fields(metadata, file_type, result) ==
    IF file_type.t = "scalar" /\ file_type.v \in DOMAIN TYPE_SPECIFIC_REQUIRED_FIELDS
    THEN LET required == TYPE_SPECIFIC_REQUIRED_FIELDS[file_type.v]
         IN  add_errors(result,
                 {"Missing required field for type '" \o file_type.v \o "': "
                      \o field :
                      field \in {f \in required : ~HasKey(metadata, f)}}
                 \cup {"Type-specific field '" \o field
                           \o "' must be a non-empty string" :
                      field \in {f \in required :
                                     HasKey(metadata, f)
                                         /\ ~NonEmptyString(Get(metadata, f))}})
    ELSE result

\* validate_top_level_sections asking for every section of the type
validate_top_level_sections_all(content, file_type, result) ==
    IF ~(file_type.t = "scalar" /\ file_type.v \in DOMAIN TYPE_REQUIRED_SECTIONS)
    THEN result
    ELSE IF \E section \in TYPE_REQUIRED_SECTIONS[file_type.v] :
                ~HasKey(content, section) \/ Get(content, section) = Null
    THEN add_error(result,
             "Document type '" \o file_type.v
                 \o "' must contain at least one of its sections")
    ELSE result

\* validate_top_level_sections, for a content dict and a hashable type
validate_top_level_sections(content, file_type, result) ==
    IF ~(file_type.t = "scalar" /\ file_type.v \in DOMAIN TYPE_REQUIRED_SECTIONS)
    THEN result
    ELSE LET required_sections == TYPE_REQUIRED_SECTIONS[file_type.v]
             existing_sections ==
                 {section \in required_sections :
                      HasKey(content, section) /\ Get(content, section) # Null}
         IN  IF existing_sections = {}
             THEN add_error(result,
                      "Document type '" \o file_type.v
                          \o "' must contain at least one of its sections")
             ELSE add_warnings(result,
                      {"Section '" \o section
                           \o "' is empty - consider adding content or removing the section" :
                           section \in {s \in existing_sections :
                                            Get(content, s).t \in {"map", "list"}
                                                /\ Get(content, s).items = <<>>}})

\* validate_yaml_file, lines 208-217: the checks that need the type
ValidateTyped(content, metadata, validated) ==
    IF validated.raised # "" THEN validated
    ELSE IF ~Truthy(validated.value) THEN Returned(validated.result, Null)
    ELSE Returned(
             validate_top_level_sections(content, validated.value,
                 validate_type_specific_fields(metadata, validated.value,
                     [validated.result EXCEPT
                          !.document_type = validated.value])),
             Null)

\* validate_yaml_file, lines 199-206, for a content that is a dict
ValidateContent(content, metadata) ==
    IF ~Truthy(metadata)
    THEN Returned(add_error(ValidationResult,
                            "Missing required 'metadata' section"), Null)
    ELSE ValidateTyped(content, metadata,
                       validate_metadata_fields(metadata, ValidationResult))

\* validate_yaml_file, lines 193-200, for what load_yaml_file returned:
\* content.get raises AttributeError on a document that is no dict
ValidateLoaded(content) ==
    IF content = Null
    THEN Returned(add_error(ValidationResult,
                            "Failed to parse YAML file - invalid syntax"), Null)
    ELSE IF content.t # "map" THEN Raised("AttributeError", ValidationResult)
    ELSE ValidateContent(content, Get(content, "metadata"))

\* validate_yaml_file applied to a file
validate_yaml_file(file) == ValidateLoaded(load_yaml_file(file))

-----------------------------------------------------------------------------
(* scripts/fix-yaml-metadata.py: ApexYamlFixer                              *)

\* ApexYamlFixer.TYPE_REQUIRED_FIELDS, each list in its order
TYPE_REQUIRED_FIELDS ==
    [doc_type \in VALID_FILE_TYPES \cup {"pipeline-config"} |->
        CASE doc_type = "dataset" -> <<"source">>
          [] doc_type = "scenario" -> <<"business-domain", "owner">>
          [] doc_type = "scenario-registry" -> <<"created-by">>
          [] doc_type = "bootstrap" -> <<"business-domain", "created-by">>
          [] OTHER -> <<"author">>]

\* Path.stem of a file name: the name without its last suffix
Stem(name) ==
    LET dots == {i \in 2..Len(name) : CharAt(name, i) = "."}
    IN  IF dots = {} THEN name
        ELSE SubSeq(name, 1, (CHOOSE i \in dots : \A j \in dots : j <= i) - 1)

RECURSIVE Kebab(_, _)
\* re.sub(r'[^a-zA-Z0-9\-]', '', re.sub(r'[_\s]+', '-', name)), read from
\* the left; in_run: the character before was of a run already replaced
Kebab(name, in_run) ==
    IF Len(name) = 0 THEN ""
    ELSE IF CharAt(name, 1) = "_" \/ IsSpace(CharAt(name, 1))
    THEN (IF in_run THEN "" ELSE "-") \o Kebab(Tail(name), TRUE)
    ELSE (IF IsAlpha(CharAt(name, 1)) \/ IsDigit(CharAt(name, 1))
             \/ CharAt(name, 1) = "-"
          THEN CharAt(name, 1) ELSE "")
         \o Kebab(Tail(name), FALSE)

\* _generate_id_from_filename
generate_id_from_filename(name) == Lower(Kebab(Stem(name), FALSE))

\* _infer_document_type, which always returns a type
infer_document_type(data, name) ==
    IF HasKey(data, "rules") \/ HasKey(data, "enrichments") THEN "rule-config"
    ELSE IF HasKey(data, "dataSources") \/ HasKey(data, "data-sources")
    THEN "external-data-config"
    ELSE IF HasKey(data, "pipeline") THEN "pipeline-config"
    ELSE IF HasKey(data, "data") THEN "dataset"
    ELSE IF HasKey(data, "scenario") THEN "scenario"
    ELSE IF Contains("pipeline", Lower(name)) THEN "pipeline-config"
    ELSE IF Contains("rule", Lower(name)) THEN "rule-config"
    ELSE IF Contains("enrichment", Lower(name)) THEN "enrichment"
    ELSE IF Contains("data", Lower(name)) THEN "external-data-config"
    ELSE "rule-config"

\* _get_default_value
get_default_value(field_name) ==
    CASE field_name = "author" -> "apex.team@company.com"
      [] field_name = "business-domain" -> "General"
      [] field_name = "owner" -> "APEX Team"
      [] field_name = "created-by" -> "APEX System"
      [] field_name = "source" -> "Generated"
      [] OTHER -> "APEX System"

\* dict[key] = value on the items of a dict: in place, or at the end
SetItem(items, key, value) ==
    IF \E i \in 1..Len(items) : items[i][1] = key
    THEN [i \in 1..Len(items) |->
             IF items[i][1] = key THEN <<key, value>> ELSE items[i]]
    ELSE Append(items, <<key, value>>)

\* _fix_metadata_section, lines 93-98
AddMissingId(metadata, name) ==
    IF HasKey(metadata, "id") THEN metadata
    ELSE Map(SetItem(metadata.items, "id", Scalar(generate_id_from_filename(name))))

\* _fix_metadata_section, lines 100-106
AddMissingType(metadata, data, name) ==
    IF HasKey(metadata, "type") THEN metadata
    ELSE Map(SetItem(metadata.items, "type", Scalar(infer_document_type(data, name))))

\* The fields of the type's list that the metadata lacks, in the list's
\* order (lines 110-111; the metadata of a type the table does not know
\* lacks none)
MissingTypeFields(metadata) ==
    IF Get(metadata, "type").t = "scalar"
           /\ Get(metadata, "type").v \in DOMAIN TYPE_REQUIRED_FIELDS
    THEN SelectSeq(TYPE_REQUIRED_FIELDS[Get(metadata, "type").v],
                   LAMBDA required_field : ~HasKey(metadata, required_field))
    ELSE <<>>

\* _fix_metadata_section, lines 109-114: each default is stored under the
\* key 'author' (line 113), so the last missing field's default stays
AddTypeFields(metadata, missing) ==
    IF missing = <<>> THEN metadata
    ELSE Map(SetItem(metadata.items, "author",
                     Scalar(get_default_value(missing[Len(missing)]))))

\* The lines `fixes` holds after lines 93-114
Fixes(metadata, data, name) ==
    (IF HasKey(metadata, "id") THEN <<>>
     ELSE <<"Added 'id': " \o generate_id_from_filename(name)>>)
    \o (IF HasKey(metadata, "type") THEN <<>>
        ELSE <<"Added 'type': " \o infer_document_type(data, name)>>)
    \o LET missing == MissingTypeFields(AddMissingType(metadata, data, name))
       IN  [i \in 1..Len(missing) |->
               "Added '" \o missing[i] \o "': " \o get_default_value(missing[i])]

\* The metadata dict after lines 93-114
FixedMetadata(metadata, data, name) ==
    AddTypeFields(AddMissingType(AddMissingId(metadata, name), data, name),
                  MissingTypeFields(AddMissingType(metadata, data, name)))

\* The position \w* reaches from position p
SkipWord(s, p) ==
    CHOOSE q \in p..(Len(s) + 1) :
        /\ \A j \in p..(q - 1) :
               IsAlpha(CharAt(s, j)) \/ IsDigit(CharAt(s, j)) \/ CharAt(s, j) = "_"
        /\ (q = Len(s) + 1
               \/ ~(IsAlpha(CharAt(s, q)) \/ IsDigit(CharAt(s, q))
                       \/ CharAt(s, q) = "_"))

\* re.match(r'\s*(\w+)\s*:', line): whether it matches, and its group 1
HasField(line) ==
    /\ SkipWord(line, SkipSpaces(line, 1)) > SkipSpaces(line, 1)
    /\ At(line, SkipSpaces(line, SkipWord(line, SkipSpaces(line, 1)))) = ":"

FieldOf(line) ==
    SubSeq(line, SkipSpaces(line, 1), SkipWord(line, SkipSpaces(line, 1)) - 1)

\* re.match(r'^metadata\s*:', line)
IsMetadataLine(line) ==
    StartsWith(line, "metadata") /\ At(line, SkipSpaces(line, 9)) = ":"

\* re.search(r'metadata\s*:', content)
HasMetadataText(content) ==
    \E i \in 1..(Len(content) - 7) :
        /\ SubSeq(content, i, i + 7) = "metadata"
        /\ At(content, SkipSpaces(content, i + 8)) = ":"

\* A line the scan of lines 196-203 passes over
IsSkipped(line) == Strip(line) = "" \/ StartsWith(line, "#")

\* current_fields without the scan of lines 196-203
current_fields_unscanned(lines, from) == {}

\* current_fields, lines 193-203, scanned from line `from` on: the scan
\* ends at the first line that is not indented by two spaces
CurrentFields(lines, from) ==
    LET stops == {k \in from..Len(lines) :
                      ~IsSkipped(lines[k]) /\ ~StartsWith(lines[k], "  ")}
        end == IF stops = {} THEN Len(lines) + 1 ELSE Least(stops)
    IN  {FieldOf(lines[k]) :
            k \in {j \in from..(end - 1) :
                       ~IsSkipped(lines[j]) /\ HasField(lines[j])}}

\* The fields lines 206-214 write, in the order of required_fields
WrittenFields(metadata, current_fields) ==
    SelectSeq(<<"id", "name", "version", "description", "type">>,
              LAMBDA field : field \notin current_fields /\ HasKey(metadata, field))

\* Lines 209-214: the line written for a field (the flow text of a list or
\* a dict stands for its repr)
FieldLine(metadata, field) ==
    IF Get(metadata, field).t = "scalar"
    THEN "  " \o field \o ": \"" \o Get(metadata, field).v \o "\""
    ELSE "  " \o field \o ": "
             \o (IF Get(metadata, field).t = "null" THEN "None"
                 ELSE Render(Get(metadata, field)))

\* lines.index(line)
IndexOf(lines, line) == Least({k \in 1..Len(lines) : lines[k] = line})

\* What the loop of lines 185-220 appends for one line: the line, and after
\* a metadata line the fields to write
ResultLines(lines, line, metadata) ==
    IF IsMetadataLine(line)
    THEN LET added == WrittenFields(metadata,
                            CurrentFields(lines, IndexOf(lines, line) + 1))
         IN  <<line>> \o [i \in 1..Len(added) |-> FieldLine(metadata, added[i])]
    ELSE <<line>>

RECURSIVE JoinLines(_)
\* '\n'.join(lines)
JoinLines(lines) ==
    IF Len(lines) = 0 THEN ""
    ELSE IF Len(lines) = 1 THEN lines[1]
    ELSE lines[1] \o "\n" \o JoinLines(Tail(lines))

RECURSIVE Flatten(_)
Flatten(lists) ==
    IF Len(lists) = 0 THEN <<>> ELSE Head(lists) \o Flatten(Tail(lists))

\* _preserve_yaml_structure
preserve_yaml_structure(original_content, metadata) ==
    LET lines == SplitLines(original_content)
    IN  JoinLines(Flatten([i \in 1..Len(lines) |->
                              ResultLines(lines, lines[i], metadata)]))

\* _fix_metadata_section, lines 86-121, for a document that is a dict with
\* a metadata key.  `metadata['type'] in TYPE_REQUIRED_FIELDS` hashes the
\* type and raises TypeError on a list or a dict (line 109).
FixMetadata(content, data, metadata, name) ==
    IF metadata.t # "map" THEN [raised |-> "", content |-> content]
    ELSE IF Get(metadata, "type").t \in {"map", "list"}
    THEN [raised |-> "TypeError", content |-> content]
    ELSE IF Fixes(metadata, data, name) = <<>>
    THEN [raised |-> "", content |-> content]
    ELSE [raised |-> "",
          content |-> preserve_yaml_structure(content,
                          FixedMetadata(metadata, data, name))]

\* _fix_metadata_section: the content to write, or the exception that
\* leaves it (yaml.YAMLError is caught, line 123; another one is not)
fix_metadata_section(file, name) ==
    IF ~HasMetadataText(file.content)
    THEN [raised |-> "", content |-> file.content]
    ELSE IF file.parse = "YAMLError" THEN [raised |-> "", content |-> file.content]
    ELSE IF file.parse = "error" THEN [raised |-> "ValueError", content |-> file.content]
    ELSE IF file.data.t # "map" \/ ~HasKey(file.data, "metadata")
    THEN [raised |-> "", content |-> file.content]
    ELSE FixMetadata(file.content, file.data, Get(file.data, "metadata"), name)

\* A file of the directory: its name, the file, and <name>.backup beside it
Entry(name, file, backup) == [name |-> name, file |-> file, backup |-> backup]

\* What safe_load reads from the content written by a fix: the document
\* with the written fields at the head of its metadata
Reparsed(content, data, added) ==
    Parsed(content,
           Map(SetItem(data.items, "metadata",
                       Map(added \o Get(data, "metadata").items))))

\* The items lines 206-214 wrote for the entry's file
WrittenItems(file, name) ==
    LET metadata == FixedMetadata(Get(file.data, "metadata"), file.data, name)
        lines == SplitLines(file.content)
        added == WrittenFields(metadata,
                       CurrentFields(lines,
                           Least({k \in 1..Len(lines) : IsMetadataLine(lines[k])}) + 1))
    IN  [i \in 1..Len(added) |-> <<added[i], Get(metadata, added[i])>>]

\* fix_yaml_file, lines 46-71, for the content _fix_metadata_section left:
\* the value returned and the entry afterwards.  open(..., 'w') raises in a
\* directory that cannot be written, and the except clause returns False.
ApplyFix(entry, fixed, dry_run, writable) ==
    IF fixed.raised # "" THEN [returned |-> FALSE, entry |-> entry]
    ELSE IF fixed.content = entry.file.content
    THEN [returned |-> FALSE, entry |-> entry]
    ELSE IF dry_run THEN [returned |-> TRUE, entry |-> entry]
    ELSE IF ~writable THEN [returned |-> FALSE, entry |-> entry]
    ELSE [returned |-> TRUE,
          entry |-> Entry(entry.name,
                          Reparsed(fixed.content, entry.file.data,
                                   WrittenItems(entry.file, entry.name)),
                          TextFile(entry.file.content))]

\* A fix that writes in a dry run too
fix_yaml_file_writing(entry, dry_run, writable) ==
    IF ~entry.file.readable THEN [returned |-> FALSE, entry |-> entry]
    ELSE ApplyFix(entry, fix_metadata_section(entry.file, entry.name),
                  FALSE, writable)

\* ApexYamlFixer.fix_yaml_file
fix_yaml_file(entry, dry_run, writable) ==
    IF ~entry.file.readable THEN [returned |-> FALSE, entry |-> entry]
    ELSE ApplyFix(entry, fix_metadata_section(entry.file, entry.name),
                  dry_run, writable)

-----------------------------------------------------------------------------
(* SpecValidate: the validation scripts run in a project tree               *)

MaxValidated == 2

\* The items of a dict without `key`
WithoutItem(items, key) == SelectSeq(items, LAMBDA item : item[1] # key)

\* The metadata of a dataset that meets every requirement of the validator
DatasetMetadata ==
    << <<"id", Scalar("countries")>>, <<"name", Scalar("Countries")>>,
       <<"version", Scalar("1.0.0")>>, <<"description", Scalar("Lookup data")>>,
       <<"type", Scalar("dataset")>>, <<"source", Scalar("ISO")>> >>

\* A document with that metadata and a data section, in flow style
Document(metadata, data) ==
    LET parsed == Map(<< <<"metadata", metadata>>, <<"data", data>> >>)
    IN  Parsed(Render(parsed) \o "\n", parsed)

DatasetWith(key, value) ==
    Document(Map(SetItem(DatasetMetadata, key, value)), List(<<Scalar("GB")>>))

DatasetWithout(key) ==
    Document(Map(WithoutItem(DatasetMetadata, key)), List(<<Scalar("GB")>>))

ValidDataset == Document(Map(DatasetMetadata), List(<<Scalar("GB")>>))

\* Files the validator reports valid, with a warning each
WarnedFiles ==
    {DatasetWith("version", Scalar("v1")),
     Document(Map(DatasetMetadata), List(<<>>))}

\* Files the validator reports with an error
ErrorFiles ==
    {DatasetWithout("id"), DatasetWithout("source"), DatasetWithout("type"),
     DatasetWith("name", Scalar("  ")),
     DatasetWith("type", Scalar("pipeline-config")),
     DatasetWith("type", Number("5")),
     Document(Map(DatasetMetadata), Null),
     Document(Map(<<>>), List(<<Scalar("GB")>>)),
     Parsed("", Null),
     Malformed("metadata:\n  name: \"x\n"),
     Unreadable}

\* Files whose shape is not the one the validator's calls expect: a
\* top-level list, a metadata that is a str, a version that is a float, a
\* type that is a list
MisshapenFiles ==
    {Parsed("- metadata\n- data\n", List(<<Scalar("metadata"), Scalar("data")>>)),
     Document(Scalar("countries v1"), List(<<Scalar("GB")>>)),
     DatasetWith("version", Number("1.0")),
     DatasetWith("type", List(<<Scalar("dataset")>>))}

ValidatedFileInputs == {ValidDataset} \cup WarnedFiles \cup ErrorFiles \cup MisshapenFiles

ValidatedFileLists ==
    UNION {[1..n -> ValidatedFileInputs] : n \in 0..MaxValidated}

\* What the checks of final_100_percent_test.py, validate_phase3.py and
\* validate_migration.py find in the tree: directories and build results,
\* and for each list of paths a script walks the number that pass its test
CompleteProject ==
    [apex_demo |-> TRUE, apex_core |-> TRUE,
     core_compiles |-> TRUE, demo_compiles |-> TRUE,
     new_dirs |-> 7, old_dirs |-> 0, demo_classes |-> 4, key_yaml_files |-> 5,
     expected_runners |-> 6, expected_docs |-> 2, runner_files |-> 3,
     learning_path_dirs |-> 6, resolver |-> TRUE,
     migrations |-> 11, expected_dirs |-> 18, java_files_to_check |-> 12]

\* Trees that differ from the complete one in what one script looks at
FinalTestProjects ==
    {[CompleteProject EXCEPT !.apex_core = dirs, !.core_compiles = core,
                             !.demo_compiles = demo, !.old_dirs = old,
                             !.demo_classes = classes, !.key_yaml_files = files] :
         dirs \in BOOLEAN, core \in BOOLEAN, demo \in BOOLEAN, old \in {0, 1},
         classes \in {3, 4}, files \in {4, 5}}

Phase3Projects ==
    {[CompleteProject EXCEPT !.expected_runners = runners, !.expected_docs = docs,
                             !.runner_files = structured,
                             !.learning_path_dirs = dirs, !.resolver = resolver] :
         runners \in {5, 6}, docs \in 0..2, structured \in 1..3,
         dirs \in {5, 6}, resolver \in BOOLEAN}

MigrationProjects ==
    {[CompleteProject EXCEPT !.migrations = migrated, !.expected_dirs = dirs,
                             !.java_files_to_check = updated] :
         migrated \in {10, 11}, dirs \in {17, 18}, updated \in {11, 12}}

ProjectInputs == FinalTestProjects \cup Phase3Projects \cup MigrationProjects

ValidateIdle ==
    /\ v_yaml = <<>>
    /\ v_project = CompleteProject
    /\ all_results = <<>>

\* ---- scripts/validate_yaml_files.py

\* main, lines 242-258: find_yaml_files and the empty counters
ValidateMainStart ==
    /\ pc = "shell"
    /\ script' = "validate_yaml_files.py"
    /\ counts' = << <<"YAML files to validate", Len(v_yaml)>> >>
    /\ locals' = [valid_count |-> 0, error_count |-> 0, warning_count |-> 0]
    /\ all_results' = <<>>
    /\ pc' = "files"
    /\ UNCHANGED <<yaml_i, diagnostics, written, exit_code>>
    /\ UNCHANGED <<v_yaml, v_project>>
    /\ UNCHANGED not_validate_vars

\* main, lines 260-269: one turn of the loop over yaml_files.  Nothing
\* catches what validate_yaml_file raises: the process ends with status 1.
ValidateMainNextFile ==
    /\ script = "validate_yaml_files.py"
    /\ pc = "files"
    /\ yaml_i < Len(v_yaml)
    /\ LET call == validate_yaml_file(v_yaml[yaml_i + 1])
           result == call.result
       IN  IF call.raised # ""
           THEN /\ diagnostics' = <<call.raised>>
                /\ Exits(1)
                /\ UNCHANGED <<yaml_i, locals, all_results>>
           ELSE /\ all_results' = Append(all_results, result)
                /\ locals' = [locals EXCEPT
                      !.valid_count = IF result.is_valid THEN @ + 1 ELSE @,
                      !.error_count = IF result.is_valid THEN @ ELSE @ + 1,
                      !.warning_count = @ + Cardinality(result.warnings)]
                /\ yaml_i' = yaml_i + 1
                /\ UNCHANGED <<pc, diagnostics, exit_code>>
    /\ UNCHANGED <<script, counts, written>>
    /\ UNCHANGED <<v_yaml, v_project>>
    /\ UNCHANGED not_validate_vars

\* print_document_type_summary, line 229: sorted() compares the keys of
\* type_counts and raises TypeError on a str and a number
DocumentTypesComparable(results) ==
    \A i, j \in 1..Len(results) :
        (Truthy(results[i].document_type) /\ Truthy(results[j].document_type))
            => results[i].document_type.t = results[j].document_type.t

\* main, lines 271-304: the printed results and the exit status
ValidateMainReport ==
    /\ script = "validate_yaml_files.py"
    /\ pc = "files"
    /\ yaml_i = Len(v_yaml)
    /\ IF ~DocumentTypesComparable(all_results)
       THEN /\ diagnostics' = <<"TypeError">>
            /\ Exits(1)
            /\ UNCHANGED counts
       ELSE /\ counts' = counts \o
                  << <<"Total files", Len(v_yaml)>>,
                     <<"Valid files", locals.valid_count>>,
                     <<"Files with errors", locals.error_count>>,
                     <<"Total warnings", locals.warning_count>> >>
            /\ IF locals.error_count > 0
               THEN /\ diagnostics' = <<"files have validation errors">>
                    /\ Exits(1)
               ELSE /\ Exits(0)
                    /\ UNCHANGED diagnostics
    /\ UNCHANGED <<script, yaml_i, locals, written>>
    /\ UNCHANGED validate_vars
    /\ UNCHANGED not_validate_vars

\* ---- final_100_percent_test.py

test_compilation(project) == project.core_compiles /\ project.demo_compiles

test_resource_organization(project) ==
    LET new_structure_ok == project.new_dirs = 7
        old_structure_removed == project.old_dirs = 0
    IN  new_structure_ok /\ old_structure_removed

test_demo_classes(project) == project.demo_classes = 4

test_yaml_files(project) == project.key_yaml_files = 5

\* A summary that succeeds on a full score only
show_final_summary_strict(compilation_ok, resources_ok, demos_ok, yaml_ok) ==
    compilation_ok /\ resources_ok /\ demos_ok /\ yaml_ok

\* show_final_summary, lines 157-202: the score of four and its percentage
show_final_summary(compilation_ok, resources_ok, demos_ok, yaml_ok) ==
    LET total_score == (IF compilation_ok THEN 1 ELSE 0)
                       + (IF resources_ok THEN 1 ELSE 0)
                       + (IF demos_ok THEN 1 ELSE 0)
                       + (IF yaml_ok THEN 1 ELSE 0)
        max_score == 4
        percentage == (total_score * 100) \div max_score
    IN  IF percentage = 100 THEN TRUE
        ELSE IF percentage >= 90 THEN TRUE
        ELSE IF percentage >= 75 THEN TRUE
        ELSE FALSE

\* The outcome of each check a run made, as <<name, passed>>, in `counts`
CheckOutcome(name, passed) == <<name, IF passed THEN 1 ELSE 0>>

\* main, lines 204-225
FinalTestMain ==
    /\ pc = "shell"
    /\ script' = "final_100_percent_test.py"
    /\ IF ~v_project.apex_demo \/ ~v_project.apex_core
       THEN /\ diagnostics' = <<"Please run this script from the project root directory">>
            /\ Exits(1)
            /\ UNCHANGED counts
       ELSE LET compilation_ok == test_compilation(v_project)
                resources_ok == test_resource_organization(v_project)
                demos_ok == test_demo_classes(v_project)
                yaml_ok == test_yaml_files(v_project)
                success == show_final_summary(compilation_ok, resources_ok,
                                              demos_ok, yaml_ok)
            IN  /\ counts' = <<CheckOutcome("Compilation", compilation_ok),
                               CheckOutcome("Resource Organization", resources_ok),
                               CheckOutcome("Demo Classes", demos_ok),
                               CheckOutcome("YAML Files", yaml_ok)>>
                /\ Exits(IF success THEN 0 ELSE 1)
                /\ UNCHANGED diagnostics
    /\ UNCHANGED <<yaml_i, locals, written>>
    /\ UNCHANGED validate_vars
    /\ UNCHANGED not_validate_vars

\* ---- validate_phase3.py

validate_demo_runners(project) == project.expected_runners = 6

\* At least one of the two documents
validate_documentation(project) == project.expected_docs >= 1

\* All three runners but one
validate_runner_structure(project) == project.runner_files >= 3 - 1

validate_learning_path(project) == project.learning_path_dirs = 6

validate_backward_compatibility(project) == project.resolver

\* The script body, lines 221-257
Phase3Main ==
    /\ pc = "shell"
    /\ script' = "validate_phase3.py"
    /\ LET runners_ok == validate_demo_runners(v_project)
           docs_ok == validate_documentation(v_project)
           structure_ok == validate_runner_structure(v_project)
           learning_path_ok == validate_learning_path(v_project)
           compatibility_ok == validate_backward_compatibility(v_project)
       IN  /\ counts' = <<CheckOutcome("Demo runners", runners_ok),
                          CheckOutcome("Documentation", docs_ok),
                          CheckOutcome("Runner structure", structure_ok),
                          CheckOutcome("Learning path", learning_path_ok),
                          CheckOutcome("Backward compatibility", compatibility_ok)>>
           /\ IF runners_ok /\ docs_ok /\ structure_ok /\ learning_path_ok
                    /\ compatibility_ok
              THEN Exits(0) /\ UNCHANGED diagnostics
              ELSE Exits(1) /\ diagnostics' = <<"PHASE 3 HAS ISSUES">>
    /\ UNCHANGED <<yaml_i, locals, written>>
    /\ UNCHANGED validate_vars
    /\ UNCHANGED not_validate_vars

\* ---- validate_migration.py

validate_migration(project) == project.migrations = 11

validate_new_structure(project) == project.expected_dirs = 18

validate_java_classes(project) == project.java_files_to_check = 12

\* The script body, lines 193-222
MigrationMain ==
    /\ pc = "shell"
    /\ script' = "validate_migration.py"
    /\ LET migration_ok == validate_migration(v_project)
           structure_ok == validate_new_structure(v_project)
           java_ok == validate_java_classes(v_project)
       IN  /\ counts' = <<CheckOutcome("File migrations", migration_ok),
                          CheckOutcome("Directory structure", structure_ok),
                          CheckOutcome("Java class updates", java_ok)>>
           /\ IF migration_ok /\ structure_ok /\ java_ok
              THEN Exits(0) /\ UNCHANGED diagnostics
              ELSE Exits(1) /\ diagnostics' = <<"PHASE 1 MIGRATION HAS ISSUES">>
    /\ UNCHANGED <<yaml_i, locals, written>>
    /\ UNCHANGED validate_vars
    /\ UNCHANGED not_validate_vars

-----------------------------------------------------------------------------
(* SpecFix: fix-yaml-metadata.py run over the YAML files of a directory     *)

MaxFixed == 2

\* A dataset without id and source, under a header comment
CountriesYaml ==
    Parsed("# Countries\nmetadata:\n  name: \"Countries\"\n  version: \"1.0.0\"\n  description: \"Lookup data\"\n  type: \"dataset\"\n\ndata:\n  - GB\n",
           Map(<< <<"metadata", Map(<< <<"name", Scalar("Countries")>>,
                                       <<"version", Scalar("1.0.0")>>,
                                       <<"description", Scalar("Lookup data")>>,
                                       <<"type", Scalar("dataset")>> >>)>>,
                  <<"data", List(<<Scalar("GB")>>)>> >>))

\* Rules without type and author
PricingRulesYaml ==
    Parsed("metadata:\n  id: \"pricing\"\n  name: \"Pricing\"\nrules:\n  - id: \"r1\"\n",
           Map(<< <<"metadata", Map(<< <<"id", Scalar("pricing")>>,
                                       <<"name", Scalar("Pricing")>> >>)>>,
                  <<"rules", List(<< Map(<< <<"id", Scalar("r1")>> >>) >>)>> >>))

\* A dataset that lacks its source only
CurrenciesYaml ==
    Parsed("metadata:\n  id: \"currencies\"\n  type: \"dataset\"\ndata:\n  - GBP\n",
           Map(<< <<"metadata", Map(<< <<"id", Scalar("currencies")>>,
                                       <<"type", Scalar("dataset")>> >>)>>,
                  <<"data", List(<<Scalar("GBP")>>)>> >>))

\* A dataset that lacks nothing
CompleteYaml ==
    Parsed("metadata:\n  id: \"complete\"\n  type: \"dataset\"\n  source: \"ISO\"\ndata:\n  - GB\n",
           Map(<< <<"metadata", Map(<< <<"id", Scalar("complete")>>,
                                       <<"type", Scalar("dataset")>>,
                                       <<"source", Scalar("ISO")>> >>)>>,
                  <<"data", List(<<Scalar("GB")>>)>> >>))

\* A scenario without id, business-domain and owner
ScenarioYaml ==
    Parsed("metadata:\n  type: \"scenario\"\nscenario:\n  name: \"otc\"\n",
           Map(<< <<"metadata", Map(<< <<"type", Scalar("scenario")>> >>)>>,
                  <<"scenario", Map(<< <<"name", Scalar("otc")>> >>)>> >>))

\* A metadata whose type is a list
ListTypeYaml ==
    Parsed("metadata:\n  id: \"typed\"\n  type:\n    - dataset\n",
           Map(<< <<"metadata", Map(<< <<"id", Scalar("typed")>>,
                                       <<"type", List(<<Scalar("dataset")>>)>> >>)>> >>))

\* The files the fixer meets, each under its name, none with a backup
\* A file with a pipeline section and no type
PipelineYaml ==
    Parsed("metadata:\n  id: \"feed\"\npipeline:\n  - load\n",
           Map(<< <<"metadata", Map(<< <<"id", Scalar("feed")>> >>)>>,
                  <<"pipeline", List(<< Scalar("load") >>)>> >>))

FixInputs ==
    {Entry("countries.yaml", CountriesYaml, NoFile),
     Entry("feed.yaml", PipelineYaml, NoFile),
     Entry("pricing_rules.yaml", PricingRulesYaml, NoFile),
     Entry("currencies.yaml", CurrenciesYaml, NoFile),
     Entry("complete.yaml", CompleteYaml, NoFile),
     Entry("OTC Scenario.v2.yaml", ScenarioYaml, NoFile),
     Entry("typed.yaml", ListTypeYaml, NoFile),
     Entry("notes.yaml", Parsed("data:\n  - GB\n",
                                Map(<< <<"data", List(<<Scalar("GB")>>)>> >>)), NoFile),
     Entry("broken.yaml", Malformed("metadata:\n  name: \"x\n"), NoFile),
     Entry("dated.yaml", Unconstructible("metadata:\n  created: 2001-02-30\n"), NoFile),
     Entry("locked.yaml", Unreadable, NoFile)}

FixDirectories == UNION {[1..n -> FixInputs] : n \in 0..MaxFixed}

FixIdle ==
    /\ fx_dir = <<>>
    /\ fx_writable = TRUE

\* main, lines 224-258, run on a directory with or without --dry-run
FixMainStart ==
    /\ pc = "shell"
    /\ script' = "fix-yaml-metadata.py"
    /\ \E dry_run \in BOOLEAN :
           locals' = [dry_run |-> dry_run, fixed_count |-> 0]
    /\ counts' = << <<"YAML files to process", Len(fx_dir)>> >>
    /\ pc' = "files"
    /\ UNCHANGED <<yaml_i, diagnostics, written, exit_code>>
    /\ UNCHANGED fix_vars
    /\ UNCHANGED not_fix_vars

\* main, lines 259-261: one turn of the loop over yaml_files
FixMainNextFile ==
    /\ script = "fix-yaml-metadata.py"
    /\ pc = "files"
    /\ yaml_i < Len(fx_dir)
    /\ LET fixed == fix_yaml_file(fx_dir[yaml_i + 1], locals.dry_run, fx_writable)
       IN  /\ fx_dir' = [fx_dir EXCEPT ![yaml_i + 1] = fixed.entry]
           /\ locals' = [locals EXCEPT
                 !.fixed_count = IF fixed.returned THEN @ + 1 ELSE @]
    /\ yaml_i' = yaml_i + 1
    /\ UNCHANGED <<script, pc, diagnostics, counts, written, exit_code>>
    /\ UNCHANGED fx_writable
    /\ UNCHANGED not_fix_vars

\* main, lines 263-268: the summary
FixMainReport ==
    /\ script = "fix-yaml-metadata.py"
    /\ pc = "files"
    /\ yaml_i = Len(fx_dir)
    /\ counts' = counts \o << <<"Files processed", Len(fx_dir)>>,
                              <<"Files fixed", locals.fixed_count>> >>
    /\ Exits(0)
    /\ UNCHANGED <<script, yaml_i, locals, diagnostics, written>>
    /\ UNCHANGED fix_vars
    /\ UNCHANGED not_fix_vars

-----------------------------------------------------------------------------
(* copy_remaining_files.py and remove_old_structure.py                      *)
(* Paths are written relative to base_path, apex-demo/src/main/resources.   *)
(* `files` maps each path that is a file to what is stored there; `dirs`    *)
(* is the set of old directories that exist.                                *)

\* When the files of the old structure were written, and when a script runs
Earlier == 1
Now == 2

\* A stored file: its content and the modification time of its metadata
Stored(content, mtime) == [content |-> content, mtime |-> mtime]

\* files with `path` holding `file`
Put(files, path, file) ==
    [p \in DOMAIN files \cup {path} |-> IF p = path THEN file ELSE files[p]]

\* files without the paths of `gone`
Without(files, gone) == [p \in DOMAIN files \ gone |-> files[p]]

\* The paths of files below the directory `dir`
Under(files, dir) == {p \in DOMAIN files : StartsWith(p, dir \o "/")}

\* What a write that stopped early left of the content
Truncated(content) ==
    IF Len(content) = 0 THEN content ELSE SubSeq(content, 1, Len(content) - 1)

\* How shutil.copy2 can end (one way throughout a run): with the copy made; raising before the
\* destination is created; raising while writing, which leaves a part of
\* the content; raising in copystat, which leaves the content under a new
\* modification time
CopyOutcomes == {"copied", "failed", "truncated", "unstamped"}

\* A copy that does not look at the destination
copy_file_overwriting(files, src, dst, outcome) ==
    IF src \notin DOMAIN files THEN [returned |-> FALSE, files |-> files]
    ELSE [returned |-> TRUE, files |-> Put(files, dst, files[src])]

\* copy_file_if_not_exists: the value returned and the files afterwards
copy_file_if_not_exists(files, src, dst, outcome) ==
    IF src \notin DOMAIN files THEN [returned |-> FALSE, files |-> files]
    ELSE IF dst \in DOMAIN files THEN [returned |-> FALSE, files |-> files]
    ELSE CASE outcome = "copied" ->
                  [returned |-> TRUE, files |-> Put(files, dst, files[src])]
           [] outcome = "failed" -> [returned |-> FALSE, files |-> files]
           [] outcome = "truncated" ->
                  [returned |-> FALSE,
                   files |-> Put(files, dst,
                                 Stored(Truncated(files[src].content), Now))]
           [] outcome = "unstamped" ->
                  [returned |-> FALSE,
                   files |-> Put(files, dst, Stored(files[src].content, Now))]

\* The order in which os.walk and os.listdir meet the files of the old
\* structure that the model places there
WalkOrder ==
    <<"bootstrap/datasets/market-data.yaml",
      "bootstrap/market-data.yaml",
      "bootstrap/sample-trade.xml",
      "examples/quickstart.yaml",
      "batch-processing.yaml">>

\* copy_directory_contents: the calls of copy_file_if_not_exists it makes,
\* each as the pair (src_file, dst_file)
copy_directory_contents(files, src_dir, dst_dir) ==
    LET found == SelectSeq(WalkOrder, LAMBDA p : p \in Under(files, src_dir))
    IN  [i \in 1..Len(found) |->
            <<found[i],
              dst_dir \o SubSeq(found[i], Len(src_dir) + 1, Len(found[i]))>>]

\* main, lines 82-86
bootstrap_files ==
    << <<"bootstrap/otc-options-bootstrap.yaml",
         "demos/bootstrap/otc-options/bootstrap-config.yaml">>,
       <<"bootstrap/market-data.yaml",
         "demos/bootstrap/custody-auto-repair/datasets/market-data.yaml">>,
       <<"bootstrap/commodity-swap-validation-bootstrap.yaml",
         "demos/bootstrap/commodity-swap/bootstrap-config.yaml">> >>

\* main, lines 95-98: the .xml files that lie in bootstrap itself
xml_files(files) ==
    LET found == SelectSeq(WalkOrder, LAMBDA p :
                     /\ p \in Under(files, "bootstrap")
                     /\ ~Contains("/", SubSeq(p, Len("bootstrap/") + 1, Len(p)))
                     /\ EndsWith(p, ".xml"))
    IN  [i \in 1..Len(found) |->
            <<found[i],
              "demos/bootstrap/otc-options/samples"
                  \o SubSeq(found[i], Len("bootstrap") + 1, Len(found[i]))>>]

\* main, lines 108-117
config_files ==
    << <<"config/data-type-scenarios.yaml",
         "demos/fundamentals/datasets/data-type-scenarios.yaml">>,
       <<"config/demo-data-sources.yaml",
         "demos/fundamentals/datasets/demo-data-sources.yaml">>,
       <<"config/derivatives-validation-rules.yaml",
         "demos/fundamentals/rules/derivatives-validation-rules.yaml">>,
       <<"config/enhanced-enterprise-rules.yaml",
         "demos/fundamentals/rules/enhanced-enterprise-rules.yaml">>,
       <<"config/financial-dataset-enrichment-rules.yaml",
         "demos/fundamentals/enrichments/financial-dataset-enrichment-rules.yaml">>,
       <<"config/financial-enrichment-rules.yaml",
         "demos/fundamentals/enrichments/financial-enrichment-rules.yaml">>,
       <<"config/production-demo-config.yaml",
         "demos/fundamentals/rules/production-demo-config.yaml">>,
       <<"config/settlement-validation-rules.yaml",
         "demos/fundamentals/rules/settlement-validation-rules.yaml">> >>

\* main, lines 131-135
demo_rules_files ==
    << <<"demo-rules/dataset-enrichment.yaml",
         "demos/fundamentals/enrichments/dataset-enrichment.yaml">>,
       <<"demo-rules/financial-validation.yaml",
         "demos/fundamentals/rules/financial-validation.yaml">>,
       <<"demo-rules/rule-chains-patterns.yaml",
         "demos/patterns/rule-chains-patterns.yaml">> >>

\* main, lines 149-152
financial_files ==
    << <<"financial-settlement/reference-data-enrichment.yaml",
         "demos/industry/financial-services/settlement/reference-data-enrichment.yaml">>,
       <<"financial-settlement/README.md",
         "demos/industry/financial-services/settlement/README.md">> >>

\* main, lines 166-168
scenarios_files ==
    << <<"scenarios/SCENARIO_BASED_PROCESSING_README.md",
         "demos/advanced/complex-scenarios/README.md">> >>

\* main, lines 194-197
standalone_files ==
    << <<"batch-processing.yaml",
         "demos/advanced/performance/batch-processing.yaml">>,
       <<"file-processing-rules.yaml",
         "demos/fundamentals/rules/file-processing-rules.yaml">> >>

\* The calls of copy_file_if_not_exists main makes before it lists the
\* bootstrap directory (lines 70-92)
CallsBeforeListing(files) ==
    copy_directory_contents(files, "bootstrap/datasets",
                            "demos/bootstrap/custody-auto-repair/datasets")
    \o copy_directory_contents(files, "bootstrap/sql",
                               "demos/bootstrap/custody-auto-repair/sql")
    \o bootstrap_files

\* The calls main makes from the listing on (lines 95-203)
CallsAfterListing(files) ==
    xml_files(files) \o config_files \o demo_rules_files \o financial_files
    \o scenarios_files
    \o copy_directory_contents(files, "yaml-examples/datasets",
                               "reference/syntax-examples/datasets")
    \o standalone_files

\* Every call of a run of main that ends, in order.  No call writes below
\* an old directory, so the walks of a run find what they find at its start.
CopyCalls(files) == CallsBeforeListing(files) \o CallsAfterListing(files)

\* remove_old_structure.main, lines 58-67 and 70-73
old_directories ==
    <<"bootstrap", "config", "demo-configs", "demo-rules", "examples",
      "financial-settlement", "scenarios", "yaml-examples">>

old_files == <<"batch-processing.yaml", "file-processing-rules.yaml">>

\* How shutil.rmtree and os.remove can end: with the removal made, or
\* raising before anything is removed
RemoveOutcomes == {"removed", "kept"}

\* remove_directory_safely
remove_directory_safely(files, dirs, dir_path, outcome) ==
    IF dir_path \notin dirs
    THEN [returned |-> FALSE, files |-> files, dirs |-> dirs]
    ELSE IF outcome = "removed"
    THEN [returned |-> TRUE, files |-> Without(files, Under(files, dir_path)),
          dirs |-> dirs \ {dir_path}]
    ELSE [returned |-> FALSE, files |-> files, dirs |-> dirs]

\* remove_file_safely
remove_file_safely(files, file_path, outcome) ==
    IF file_path \notin DOMAIN files THEN [returned |-> FALSE, files |-> files]
    ELSE IF outcome = "removed"
    THEN [returned |-> TRUE, files |-> Without(files, {file_path})]
    ELSE [returned |-> FALSE, files |-> files]

-----------------------------------------------------------------------------
(* SpecReorganize: the two scripts run, in any order, on a resource tree    *)

MaxOld == 2
MaxRuns == 2

\* An old structure with the files of `paths`, each with a content of its own
OldStructure(paths) == [p \in paths |-> Stored("# " \o p \o "\n", Earlier)]

OldStructures ==
    {OldStructure(paths) :
        paths \in {P \in SUBSET {WalkOrder[i] : i \in 1..Len(WalkOrder)} :
                      Cardinality(P) <= MaxOld}}

\* What the new structure holds before the scripts run: nothing, another
\* file at a destination, or a copy made before
NewStructures ==
    {<<>>,
     [p \in {"demos/bootstrap/custody-auto-repair/datasets/market-data.yaml"} |->
         Stored("# rewritten\n", Earlier)],
     [p \in {"demos/advanced/performance/batch-processing.yaml"} |->
         Stored("# batch-processing.yaml\n", Earlier)]}

ReorganizeIdle ==
    /\ rs_files = <<>>
    /\ rs_dirs = {}
    /\ rs_original = <<>>
    /\ rs_runs = <<>>
    /\ rs_io = "none"

\* What a script that ended adds to the record of runs
Ran(code) == rs_runs' = Append(rs_runs, <<script, code>>)

\* copy_remaining_files.main, lines 57-63
CopyMainStart ==
    /\ pc = "shell"
    /\ Len(rs_runs) < MaxRuns
    /\ script' = "copy_remaining_files.py"
    /\ locals' = [total_copied |-> 0]
    /\ rs_io' \in CopyOutcomes
    /\ pc' = "files"
    /\ UNCHANGED <<yaml_i, diagnostics, counts, written, exit_code>>
    /\ UNCHANGED <<rs_files, rs_dirs, rs_original, rs_runs>>
    /\ UNCHANGED not_reorganize_vars

\* One call of copy_file_if_not_exists, from main or from
\* copy_directory_contents, with what follows it: total_copied += 1
CopyMainNextFile ==
    /\ script = "copy_remaining_files.py"
    /\ pc = "files"
    /\ yaml_i < Len(CopyCalls(rs_files))
    /\ yaml_i = Len(CallsBeforeListing(rs_files)) => "bootstrap" \in rs_dirs
    /\ LET call == CopyCalls(rs_files)[yaml_i + 1]
           copied == copy_file_if_not_exists(rs_files, call[1], call[2], rs_io)
       IN  /\ rs_files' = copied.files
           /\ locals' = [locals EXCEPT
                 !.total_copied = IF copied.returned THEN @ + 1 ELSE @]
    /\ yaml_i' = yaml_i + 1
    /\ UNCHANGED <<script, pc, diagnostics, counts, written, exit_code>>
    /\ UNCHANGED <<rs_dirs, rs_original, rs_runs, rs_io>>
    /\ UNCHANGED not_reorganize_vars

\* main, line 95: os.listdir of a bootstrap directory that does not exist
\* raises FileNotFoundError, which nothing catches
CopyMainListingFails ==
    /\ script = "copy_remaining_files.py"
    /\ pc = "files"
    /\ yaml_i = Len(CallsBeforeListing(rs_files))
    /\ "bootstrap" \notin rs_dirs
    /\ diagnostics' = <<"FileNotFoundError">>
    /\ Ran(1)
    /\ Exits(1)
    /\ UNCHANGED <<script, yaml_i, locals, counts, written>>
    /\ rs_io' = "none"
    /\ UNCHANGED <<rs_files, rs_dirs, rs_original>>
    /\ UNCHANGED not_reorganize_vars

\* main, lines 205-224: the summary
CopyMainReport ==
    /\ script = "copy_remaining_files.py"
    /\ pc = "files"
    /\ yaml_i = Len(CopyCalls(rs_files))
    /\ counts' = << <<"Total files copied", locals.total_copied>> >>
    /\ Ran(0)
    /\ Exits(0)
    /\ UNCHANGED <<script, yaml_i, locals, diagnostics, written>>
    /\ rs_io' = "none"
    /\ UNCHANGED <<rs_files, rs_dirs, rs_original>>
    /\ UNCHANGED not_reorganize_vars

\* remove_old_structure.main, lines 47-76
RemoveMainStart ==
    /\ pc = "shell"
    /\ Len(rs_runs) < MaxRuns
    /\ script' = "remove_old_structure.py"
    /\ locals' = [removed_dirs |-> 0, removed_files |-> 0]
    /\ rs_io' \in RemoveOutcomes
    /\ pc' = "files"
    /\ UNCHANGED <<yaml_i, diagnostics, counts, written, exit_code>>
    /\ UNCHANGED <<rs_files, rs_dirs, rs_original, rs_runs>>
    /\ UNCHANGED not_reorganize_vars

\* main, lines 82-86: one turn of the loop over old_directories
RemoveMainNextDirectory ==
    /\ script = "remove_old_structure.py"
    /\ pc = "files"
    /\ yaml_i < Len(old_directories)
    /\ LET removed == remove_directory_safely(rs_files, rs_dirs,
                          old_directories[yaml_i + 1], rs_io)
       IN  /\ rs_files' = removed.files
           /\ rs_dirs' = removed.dirs
           /\ locals' = [locals EXCEPT
                 !.removed_dirs = IF removed.returned THEN @ + 1 ELSE @]
    /\ yaml_i' = yaml_i + 1
    /\ UNCHANGED <<script, pc, diagnostics, counts, written, exit_code>>
    /\ UNCHANGED <<rs_original, rs_runs, rs_io>>
    /\ UNCHANGED not_reorganize_vars

\* main, lines 92-96: one turn of the loop over old_files
RemoveMainNextFile ==
    /\ script = "remove_old_structure.py"
    /\ pc = "files"
    /\ yaml_i >= Len(old_directories)
    /\ yaml_i < Len(old_directories) + Len(old_files)
    /\ LET removed == remove_file_safely(rs_files,
                          old_files[yaml_i + 1 - Len(old_directories)], rs_io)
       IN  /\ rs_files' = removed.files
           /\ locals' = [locals EXCEPT
                 !.removed_files = IF removed.returned THEN @ + 1 ELSE @]
    /\ yaml_i' = yaml_i + 1
    /\ UNCHANGED <<script, pc, diagnostics, counts, written, exit_code>>
    /\ UNCHANGED <<rs_dirs, rs_original, rs_runs, rs_io>>
    /\ UNCHANGED not_reorganize_vars

\* main, lines 98-136: the summary
RemoveMainReport ==
    /\ script = "remove_old_structure.py"
    /\ pc = "files"
    /\ yaml_i = Len(old_directories) + Len(old_files)
    /\ counts' = << <<"Directories removed", locals.removed_dirs>>,
                    <<"Files removed", locals.removed_files>> >>
    /\ Ran(0)
    /\ Exits(0)
    /\ UNCHANGED <<script, yaml_i, locals, diagnostics, written>>
    /\ rs_io' = "none"
    /\ UNCHANGED <<rs_files, rs_dirs, rs_original>>
    /\ UNCHANGED not_reorganize_vars

-----------------------------------------------------------------------------
(* validate_apex_yaml_reference.py: extract_yaml_blocks                     *)

\* The fence lines, stripped
YamlFence == Grave \o Grave \o Grave \o "yaml"
PlainFence == Grave \o Grave \o Grave

RECURSIVE ExtractBlocksFrom(_, _, _, _, _, _)
\* The loop of lines 89-97 from the i-th line on (i counts from 1, as
\* enumerate's index plus one), with the values the loop variables have
ExtractBlocksFrom(lines, i, in_yaml_block, yaml_content, start_line, yaml_blocks) ==
    IF i > Len(lines) THEN yaml_blocks
    ELSE IF Strip(lines[i]) = YamlFence
    THEN ExtractBlocksFrom(lines, i + 1, TRUE, <<>>, i, yaml_blocks)
    ELSE IF Strip(lines[i]) = PlainFence /\ in_yaml_block
    THEN ExtractBlocksFrom(lines, i + 1, FALSE, yaml_content, start_line,
                           Append(yaml_blocks, <<JoinLines(yaml_content), start_line>>))
    ELSE IF in_yaml_block
    THEN ExtractBlocksFrom(lines, i + 1, TRUE, Append(yaml_content, lines[i]),
                           start_line, yaml_blocks)
    ELSE ExtractBlocksFrom(lines, i + 1, FALSE, yaml_content, start_line, yaml_blocks)

\* An extraction that numbers lines as enumerate does, from 0
extract_yaml_blocks_from_zero(content) ==
    LET blocks == ExtractBlocksFrom(SplitLines(content), 1, FALSE, <<>>, 0, <<>>)
    IN  [k \in 1..Len(blocks) |-> <<blocks[k][1], blocks[k][2] - 1>>]

\* extract_yaml_blocks: the list of (content, line number) pairs
extract_yaml_blocks(content) ==
    ExtractBlocksFrom(SplitLines(content), 1, FALSE, <<>>, 0, <<>>)

-----------------------------------------------------------------------------
(* SpecBlocks: extract_yaml_blocks applied to a text                        *)

MaxLines == 4

\* The lines the texts are made of: both fences, bare and in white space,
\* a fence of another language, a mapping line and an empty line
BlockLines ==
    {YamlFence, PlainFence, "  " \o YamlFence, PlainFence \o " ",
     PlainFence \o "python", "key: value", ""}

BlockTexts ==
    {JoinLines(lines) : lines \in UNION {[1..n -> BlockLines] : n \in 1..MaxLines}}

BlocksIdle ==
    /\ b_content = ""
    /\ b_done = FALSE
    /\ b_blocks = <<>>

\* main, line 223: yaml_blocks = extract_yaml_blocks(content)
ExtractYamlBlocks ==
    /\ ~b_done
    /\ b_blocks' = extract_yaml_blocks(b_content)
    /\ b_done' = TRUE
    /\ UNCHANGED b_content
    /\ UNCHANGED <<classify_vars, extract_vars, fs_vars, run_vars>>
    /\ UNCHANGED <<validate_vars, fix_vars, reorganize_vars, result_vars>>

-----------------------------------------------------------------------------
(* SpecResult: the methods of one ValidationResult, and                     *)
(* validate_top_level_sections recording on it                              *)
(* (scripts/validate_yaml_files.py)                                         *)

\* Messages validate_yaml_file and validate_version_format record
ResultErrors ==
    {"Failed to parse YAML file - invalid syntax",
     "Missing required 'metadata' section"}

ResultWarnings ==
    {"Version should follow semantic versioning format (e.g., 1.0.0): 1"}

\* Types with two sections, with one section and without an entry in
\* TYPE_REQUIRED_SECTIONS
SectionFileTypes == {"rule-config", "dataset", "pipeline-config"}

\* Documents whose sections are absent, null, empty or filled
SectionContents ==
    {Map(<<>>),
     Map(<< <<"rules", Null>>, <<"data", Null>> >>),
     Map(<< <<"rules", List(<<>>)>>, <<"data", Map(<<>>)>> >>),
     Map(<< <<"rules", Null>>, <<"enrichments", Map(<<>>)>>,
            <<"data", Scalar("")>> >>),
     Map(<< <<"rules", List(<<Scalar("r")>>)>>, <<"enrichments", List(<<>>)>>,
            <<"data", List(<<Scalar("GB")>>)>> >>),
     Map(<< <<"enrichments", Scalar("0")>>, <<"other", List(<<>>)>> >>)}

ResultIdle ==
    /\ r_result = ValidationResult
    /\ r_method = "__init__"
    /\ r_content = Null
    /\ r_file_type = ""

AddError ==
    /\ \E message \in ResultErrors : r_result' = add_error(r_result, message)
    /\ r_method' = "add_error"
    /\ UNCHANGED <<r_content, r_file_type>>
    /\ UNCHANGED <<classify_vars, extract_vars, fs_vars, run_vars>>
    /\ UNCHANGED <<validate_vars, fix_vars, reorganize_vars, blocks_vars>>

AddWarning ==
    /\ \E message \in ResultWarnings : r_result' = add_warning(r_result, message)
    /\ r_method' = "add_warning"
    /\ UNCHANGED <<r_content, r_file_type>>
    /\ UNCHANGED <<classify_vars, extract_vars, fs_vars, run_vars>>
    /\ UNCHANGED <<validate_vars, fix_vars, reorganize_vars, blocks_vars>>

SetDocumentType ==
    /\ \E doc_type \in SectionFileTypes :
           r_result' = set_document_type(r_result, Scalar(doc_type))
    /\ r_method' = "set_document_type"
    /\ UNCHANGED <<r_content, r_file_type>>
    /\ UNCHANGED <<classify_vars, extract_vars, fs_vars, run_vars>>
    /\ UNCHANGED <<validate_vars, fix_vars, reorganize_vars, blocks_vars>>

\* validate_yaml_file, line 215
ValidateTopLevelSections ==
    /\ \E content \in SectionContents, file_type \in SectionFileTypes :
           /\ r_result' =
                  validate_top_level_sections(content, Scalar(file_type), r_result)
           /\ r_content' = content
           /\ r_file_type' = file_type
    /\ r_method' = "validate_top_level_sections"
    /\ UNCHANGED <<classify_vars, extract_vars, fs_vars, run_vars>>
    /\ UNCHANGED <<validate_vars, fix_vars, reorganize_vars, blocks_vars>>

\* No validation, repair, reorganization or block extraction has run
ToolsIdle == ValidateIdle /\ FixIdle /\ ReorganizeIdle /\ BlocksIdle /\ ResultIdle

-----------------------------------------------------------------------------
(* Specifications                                                           *)

InitClassify ==
    /\ c_keywords \in ClassifierInputs
    /\ c_done = {}
    /\ c_missing = EmptyMissingCategories
    /\ c_keyword = EmptyKeywordCategories
    /\ c_apex = {}
    /\ ExtractIdle
    /\ NoWorkingDirectory
    /\ AtShell
    /\ ToolsIdle

NextClassify == CategorizeMissing \/ CategorizeKeywords \/ FilterApexKeywords

SpecClassify == InitClassify /\ [][NextClassify]_vars

InitExtract ==
    /\ x_file \in ExtractInputs
    /\ x_done = {}
    /\ x_keywords = {}
    /\ x_regex_used = FALSE
    /\ x_analyzed = {}
    /\ ClassifyIdle
    /\ NoWorkingDirectory
    /\ AtShell
    /\ ToolsIdle

NextExtract == ExtractKeywordsFromYaml \/ AnalyzeYamlFile

SpecExtract == InitExtract /\ [][NextExtract]_vars

\* A working directory with or without apex-demo, the reference document
\* and some YAML files; apex_keywords_extracted.txt is not there until the
\* extractor writes it
Init ==
    /\ fs_demo \in BOOLEAN
    /\ fs_yaml \in (IF fs_demo THEN YamlFileLists ELSE {<<>>})
    /\ fs_reference \in ReferenceInputs
    /\ fs_extracted = NoFile
    /\ AtShell
    /\ ClassifyIdle
    /\ ExtractIdle
    /\ ToolsIdle

Next ==
    \/ ExtractMainStart
    \/ ExtractMainNextFile
    \/ ExtractMainReport
    \/ GapsMain
    \/ SmartMain
    \/ DefinitiveMain
    \/ CoverageMainStart
    \/ CoverageMainNextFile
    \/ CoverageMainReport
    \/ DemoAnalysisMain
    \/ MappingMain
    \/ ReturnToShell

Spec == Init /\ [][Next]_vars

\* A project tree with some YAML files for validate_yaml_files.py, or one
\* in which a check of the other validation scripts may fail
InitValidate ==
    /\ \/ v_yaml \in ValidatedFileLists /\ v_project = CompleteProject
       \/ v_yaml = <<>> /\ v_project \in ProjectInputs
    /\ all_results = <<>>
    /\ AtShell
    /\ ClassifyIdle
    /\ ExtractIdle
    /\ NoWorkingDirectory
    /\ FixIdle
    /\ ReorganizeIdle
    /\ BlocksIdle
    /\ ResultIdle

NextValidate ==
    \/ ValidateMainStart
    \/ ValidateMainNextFile
    \/ ValidateMainReport
    \/ FinalTestMain
    \/ Phase3Main
    \/ MigrationMain
    \/ ReturnToShell

SpecValidate == InitValidate /\ [][NextValidate]_vars

\* Some YAML files in directories that can or cannot be written
InitFix ==
    /\ fx_dir \in FixDirectories
    /\ fx_writable \in BOOLEAN
    /\ AtShell
    /\ ClassifyIdle
    /\ ExtractIdle
    /\ NoWorkingDirectory
    /\ ValidateIdle
    /\ ReorganizeIdle
    /\ BlocksIdle
    /\ ResultIdle

NextFix == FixMainStart \/ FixMainNextFile \/ FixMainReport \/ ReturnToShell

SpecFix == InitFix /\ [][NextFix]_vars

\* A resource tree with the old directories, some files in them, and the
\* new structure begun or not
InitReorganize ==
    /\ \E old \in OldStructures, new \in NewStructures :
          /\ rs_files = [p \in DOMAIN old \cup DOMAIN new |->
                            IF p \in DOMAIN old THEN old[p] ELSE new[p]]
          /\ rs_original = old
    /\ rs_dirs = {old_directories[i] : i \in 1..Len(old_directories)}
    /\ rs_runs = <<>>
    /\ rs_io = "none"
    /\ AtShell
    /\ ClassifyIdle
    /\ ExtractIdle
    /\ NoWorkingDirectory
    /\ ValidateIdle
    /\ FixIdle
    /\ BlocksIdle
    /\ ResultIdle

NextReorganize ==
    \/ CopyMainStart
    \/ CopyMainNextFile
    \/ CopyMainListingFails
    \/ CopyMainReport
    \/ RemoveMainStart
    \/ RemoveMainNextDirectory
    \/ RemoveMainNextFile
    \/ RemoveMainReport
    \/ ReturnToShell

SpecReorganize == InitReorganize /\ [][NextReorganize]_vars

InitBlocks ==
    /\ b_content \in BlockTexts
    /\ b_done = FALSE
    /\ b_blocks = <<>>
    /\ AtShell
    /\ ClassifyIdle
    /\ ExtractIdle
    /\ NoWorkingDirectory
    /\ ValidateIdle
    /\ FixIdle
    /\ ReorganizeIdle
    /\ ResultIdle

NextBlocks == ExtractYamlBlocks

SpecBlocks == InitBlocks /\ [][NextBlocks]_vars

InitResult ==
    /\ ResultIdle
    /\ AtShell
    /\ ClassifyIdle
    /\ ExtractIdle
    /\ NoWorkingDirectory
    /\ ValidateIdle
    /\ FixIdle
    /\ ReorganizeIdle
    /\ BlocksIdle

NextResult == AddError \/ AddWarning \/ SetDocumentType \/ ValidateTopLevelSections

SpecResult == InitResult /\ [][NextResult]_vars


-----------------------------------------------------------------------------
(* Claims about the classifiers (SpecClassify)                              *)

\* The places <<category, index>> at which the lists of `categories` hold k
Places(categories, k) ==
    {p \in UNION {{c} \X (1..Len(categories[c])) : c \in DOMAIN categories} :
        categories[p[1]][p[2]] = k}

\* The lists of `categories` hold each keyword of K at exactly one place,
\* are pairwise disjoint and together hold K and nothing else
PartitionOf(categories, K) ==
    /\ \A k \in K : Cardinality(Places(categories, k)) = 1
    /\ UNION {Range(categories[c]) : c \in DOMAIN categories} = K
    /\ \A c1, c2 \in DOMAIN categories :
           c1 # c2 => Range(categories[c1]) \cap Range(categories[c2]) = {}

\* C1: for every keyword set, each classifier places each keyword in
\* exactly one category list, exactly once (the lists are pairwise disjoint
\* and their union is the set), and a keyword that matches no category's
\* patterns is in the catch-all list ("Other", "other").
C1_ExactlyOneCategory ==
    /\ "categorize_missing_keywords" \in c_done =>
           /\ PartitionOf(c_missing, c_keywords)
           /\ \A k \in c_keywords :
                  (\A c \in Range(MissingPatternOrder) :
                       ~PatternListMatches(k, MissingPatterns(c)))
                      => k \in Range(c_missing["Other"])
    /\ "categorize_keywords" \in c_done =>
           /\ PartitionOf(c_keyword, c_keywords)
           /\ \A k \in c_keywords :
                  (\A c \in Range(KeywordPatternOrder) :
                       ~PatternListMatches(k, KeywordPatterns(c)))
                      => k \in Range(c_keyword["other"])

\* Both classifiers have returned for a set of two keywords, one of which
\* went to the catch-all and the other to a pattern's category.
C1_Witness ==
    /\ c_done = {"categorize_missing_keywords", "categorize_keywords"}
    /\ Cardinality(c_keywords) = 2
    /\ Len(c_missing["Other"]) = 1
    /\ Len(c_keyword["other"]) = 1
    /\ \E c \in Range(MissingPatternOrder) : Len(c_missing[c]) = 1
    /\ \E c \in Range(KeywordPatternOrder) : Len(c_keyword[c]) = 1

\* A pattern list matches a keyword when it holds the keyword or one of its
\* patterns occurs in the keyword, letter case ignored on both sides
CaseInsensitiveMatches(keyword, pattern_list) ==
    \/ keyword \in Range(pattern_list)
    \/ \E i \in 1..Len(pattern_list) :
           Contains(Lower(pattern_list[i]), Lower(keyword))

\* The first category of `order` that Matches, else `other`
FirstCategory(order, other, Matches(_)) ==
    IF \E i \in 1..Len(order) : Matches(order[i])
    THEN order[CHOOSE i \in 1..Len(order) :
                   Matches(order[i]) /\ \A j \in 1..(i - 1) : ~Matches(order[j])]
    ELSE other

\* C2: a keyword is in the list of the first category, in declaration
\* order, whose pattern list holds the keyword or has a pattern occurring
\* in the keyword compared case-insensitively, and in no other list.
C2_FirstCaseInsensitiveMatchWins ==
    /\ "categorize_missing_keywords" \in c_done =>
           \A k \in c_keywords : \A c \in Range(MissingCategories) :
               k \in Range(c_missing[c]) <=>
                   c = FirstCategory(MissingPatternOrder, "Other",
                           LAMBDA m : CaseInsensitiveMatches(k, MissingPatterns(m)))
    /\ "categorize_keywords" \in c_done =>
           \A k \in c_keywords : \A c \in Range(KeywordCategories) :
               k \in Range(c_keyword[c]) <=>
                   c = FirstCategory(KeywordPatternOrder, "other",
                           LAMBDA m : CaseInsensitiveMatches(k, KeywordPatterns(m)))

\* C5: fed one of its own fixed keyword lists (or all of them), the
\* classifier of the gap analysis puts every declared pattern string into
\* a category whose pattern list declares it.
C5_FixedListsKeepTheirCategory ==
    ("categorize_missing_keywords" \in c_done /\ c_keywords \in FixedLists) =>
        \A p \in c_keywords :
            \E c \in Range(MissingPatternOrder) :
                /\ p \in Range(c_missing[c])
                /\ p \in Range(MissingPatterns(c))

-----------------------------------------------------------------------------
(* Claims about the per-file extractors (SpecExtract)                       *)

\* The values directly inside a parsed value
Children(data) ==
    CASE data.t = "map" -> {data.items[i][2] : i \in 1..Len(data.items)}
      [] data.t = "list" -> Range(data.items)
      [] OTHER -> {}

RECURSIVE Descendants(_)
\* The values of S and all values nested in them, level by level
Descendants(S) ==
    IF S = {} THEN {} ELSE S \cup Descendants(UNION {Children(n) : n \in S})

\* The keys of every mapping at any depth of the document
ReachableKeys(data) ==
    UNION {{n.items[i][1] : i \in 1..Len(n.items)} :
               n \in {m \in Descendants({data}) : m.t = "map"}}

\* C3: for a parsed document whose top level is a mapping, both structured
\* extractors return exactly the keys of the mappings reachable at any depth
\* through mappings and sequence elements (a sequence and a scalar add
\* none), whenever and however often they are called on the file.
C3_AllReachableKeys ==
    (x_file.readable /\ x_file.parse = "ok" /\ x_file.data.t = "map") =>
        /\ "extract_keywords_from_yaml" \in x_done =>
               x_keywords = ReachableKeys(x_file.data)
        /\ "analyze_yaml_file" \in x_done =>
               x_analyzed = ReachableKeys(x_file.data)

\* Both extractors have returned the keys of a file whose top-level mapping
\* holds a sequence of mappings: the keys of the sequence's elements are in
\* the result, the line inside the block scalar is not.
C3_Witness ==
    /\ x_done = {"extract_keywords_from_yaml", "analyze_yaml_file"}
    /\ x_file = BlockScalarYaml
    /\ x_keywords = {"desc", "rules", "id", "enabled"}
    /\ x_analyzed = {"desc", "rules", "id", "enabled"}

-----------------------------------------------------------------------------
(* Claims about the scripts run in a working directory (Spec)               *)

\* The relations between two key sets and their two gaps
GapAlgebra(found, documented, missing, unused) ==
    LET common == found \cap documented
    IN  /\ missing = found \ documented
        /\ unused = documented \ found
        /\ missing \subseteq found
        /\ unused \subseteq documented
        /\ missing \cap unused = {}
        /\ missing \cap common = {}
        /\ unused \cap common = {}
        /\ missing \cup common = found
        /\ unused \cup common = documented

\* C4: in each of the three gap analyses, for the key sets found and
\* documented that the run computed, missing = found - documented and
\* unused = documented - found; missing is a subset of found, unused of
\* documented; missing, unused and found /\ documented are pairwise
\* disjoint; missing with the common keys is found, unused with the common
\* keys is documented.
C4_GapAlgebra ==
    pc = "exited" =>
        /\ script = "analyze_apex_documentation_gaps.py" =>
               GapAlgebra(locals.extracted_keywords, locals.documented_keywords,
                          locals.missing_keywords, locals.documented_but_unused)
        /\ (script = "smart_apex_keyword_analysis.py" /\ written # {}) =>
               GapAlgebra(locals.apex_keywords, locals.documented_apex_keywords,
                          locals.missing_keywords, locals.documented_but_unused)
        /\ script = "definitive_apex_keywords.py" =>
               GapAlgebra(locals.apex_keywords, locals.documented_keywords,
                          locals.missing_keywords, locals.documented_but_not_core)

\* The gap analysis has ended with keys on all three sides: missing,
\* unused and common.
C4_Witness ==
    /\ script = "analyze_apex_documentation_gaps.py"
    /\ pc = "exited"
    /\ locals.missing_keywords # {}
    /\ locals.documented_but_unused # {}
    /\ locals.extracted_keywords \cap locals.documented_keywords # {}

\* The gap analysis has ended after the extractor wrote its file, with the
\* reference document of the worked example
WorkedExampleRun ==
    /\ script = "analyze_apex_documentation_gaps.py"
    /\ pc = "exited"
    /\ fs_extracted.exists
    /\ fs_reference = WorkedReference

\* C6 as stated: with the sample file (a top-level `metadata` mapping with
\* `name` and `version`) as the only YAML file and the reference document
\* whose block holds only `name:` and `version:`, the gap analysis finds
\* missing = {}; with `custom-field: "y"` added to the sample it finds
\* missing = {"custom-field"}.
C6_WorkedExampleAsStated ==
    WorkedExampleRun =>
        /\ fs_yaml = <<SampleYaml>> => locals.missing_keywords = {}
        /\ fs_yaml = <<SampleYamlCustom>> =>
               locals.missing_keywords = {"custom-field"}

\* C6 (amended): in the worked example the keys extracted from the sample
\* are metadata, name and version, the documented keys are name and
\* version, and missing = {"metadata"}; with `custom-field: "y"` added to
\* the sample, missing = {"metadata", "custom-field"}.
C6_WorkedExampleKeepsMetadata ==
    WorkedExampleRun =>
        /\ locals.documented_keywords = {"name", "version"}
        /\ fs_yaml = <<SampleYaml>> =>
               /\ locals.extracted_keywords = {"metadata", "name", "version"}
               /\ locals.missing_keywords = {"metadata"}
        /\ fs_yaml = <<SampleYamlCustom>> =>
               /\ locals.extracted_keywords =
                      {"metadata", "name", "version", "custom-field"}
               /\ locals.missing_keywords = {"metadata", "custom-field"}

\* The worked example has run on the sample with custom-field added.
C6_Witness ==
    /\ WorkedExampleRun
    /\ fs_yaml = <<SampleYamlCustom>>
    /\ locals.missing_keywords = {"metadata", "custom-field"}

\* A file on which the per-file extractor of the coverage check fails
FailsToParse(file) == ~file.readable \/ file.parse # "ok"

\* C8: in the loops over the YAML files (extractor and coverage check), a
\* file that cannot be read or parsed contributes the empty set and nothing
\* else changes: after each file the accumulated set is the union of the
\* per-file results of the files handled so far (so what earlier files gave
\* is kept), and the run ends only after the last file, with the union over
\* all files.
C8_FailureStopsAtItsFile ==
    /\ (script = "extract_apex_keywords.py" /\ pc \in {"files", "exited"}) =>
           /\ Len(locals.file_keywords) = yaml_i
           /\ \A j \in 1..yaml_i :
                  /\ locals.file_keywords[j] = extract_keywords_from_yaml(fs_yaml[j])
                  /\ (~fs_yaml[j].readable \/ fs_yaml[j].parse = "error")
                         => locals.file_keywords[j] = {}
           /\ locals.all_keywords =
                  UNION {extract_keywords_from_yaml(fs_yaml[j]) : j \in 1..yaml_i}
           /\ pc = "exited" => yaml_i = Len(fs_yaml)
    /\ (script = "check_yaml_keyword_coverage.py" /\ pc \in {"files", "exited"}) =>
           /\ Len(locals.file_coverage) = yaml_i
           /\ \A j \in 1..yaml_i :
                  /\ locals.file_coverage[j] = analyze_yaml_file(fs_yaml[j])
                  /\ FailsToParse(fs_yaml[j]) => locals.file_coverage[j] = {}
           /\ locals.covered_keywords =
                  UNION {analyze_yaml_file(fs_yaml[j]) : j \in 1..yaml_i}
           /\ pc = "exited" => yaml_i = Len(fs_yaml)

\* The extractor has ended after a file that parsed and a later file whose
\* parse raised, still holding the first file's keys.
C8_Witness ==
    /\ script = "extract_apex_keywords.py"
    /\ pc = "exited"
    /\ fs_yaml = <<SampleYaml, BadDateYaml>>
    /\ yaml_i = 2
    /\ locals.file_keywords = <<{"metadata", "name", "version"}, {}>>
    /\ locals.all_keywords = {"metadata", "name", "version"}

\* C9 as stated: when the input file a loader opens is missing, the loader
\* prints a diagnostic and returns an empty set, and the script goes on to
\* its report with the empty data and a count of zero.
C9_MissingInputGivesEmptyAndZero ==
    pc = "exited" =>
        /\ (script = "analyze_apex_documentation_gaps.py" /\ ~fs_extracted.exists) =>
               /\ diagnostics # <<>>
               /\ locals.extracted_keywords = {}
               /\ <<"Keywords found in apex-demo", 0>> \in Range(counts)
               /\ written # {}
        /\ (script = "analyze_apex_documentation_gaps.py" /\ ~fs_reference.exists) =>
               /\ diagnostics # <<>>
               /\ locals.documented_keywords = {}
               /\ <<"Keywords documented in APEX_YAML_REFERENCE.md", 0>>
                      \in Range(counts)
               /\ written # {}
        /\ (script = "check_yaml_keyword_coverage.py" /\ ~fs_reference.exists) =>
               /\ diagnostics # <<>>
               /\ locals.reference_keywords = {}
               /\ <<"keywords in APEX_YAML_REFERENCE.md", 0>> \in Range(counts)
        /\ (script = "smart_apex_keyword_analysis.py" /\ ~fs_extracted.exists) =>
               /\ diagnostics # <<>>
               /\ locals.all_keywords = {}
               /\ <<"Total keywords extracted", 0>> \in Range(counts)
               /\ written # {}
        /\ (script = "smart_apex_keyword_analysis.py" /\ ~fs_reference.exists) =>
               /\ diagnostics # <<>>
               /\ locals.documented_apex_keywords = {}
               /\ <<"Documented APEX keywords", 0>> \in Range(counts)
               /\ written # {}

\* C9 (amended): a missing input file never raises, and what follows
\* depends on the script.  The loaders of the gap analysis print an error
\* and return the empty set, and main goes on to its report with the empty
\* data and a count of zero.  The reference loader of the coverage check
\* prints a warning and returns the built-in keyword set, which is not
\* empty, and main goes on with it.  The main of the smart analysis prints
\* an error and returns at the first missing file: it computes no gap and
\* writes no report.
C9_MissingInputPerScript ==
    /\ (script = "analyze_apex_documentation_gaps.py" /\ pc = "exited") =>
           /\ ~fs_extracted.exists =>
                  /\ diagnostics[1] = "Error: apex_keywords_extracted.txt not found. Run extract_apex_keywords.py first."
                  /\ locals.extracted_keywords = {}
                  /\ locals.missing_keywords = {}
                  /\ <<"Keywords found in apex-demo", 0>> \in Range(counts)
                  /\ <<"Missing from documentation", 0>> \in Range(counts)
           /\ ~fs_reference.exists =>
                  /\ diagnostics[Len(diagnostics)] =
                         "Error: docs/APEX_YAML_REFERENCE.md not found."
                  /\ locals.documented_keywords = {}
                  /\ locals.documented_but_unused = {}
                  /\ <<"Keywords documented in APEX_YAML_REFERENCE.md", 0>>
                         \in Range(counts)
                  /\ <<"Documented but not used", 0>> \in Range(counts)
           /\ written = {"apex_documentation_gaps.txt"}
           /\ exit_code = 0
    /\ (script = "check_yaml_keyword_coverage.py" /\ pc \in {"files", "exited"}
            /\ ~fs_reference.exists) =>
           /\ diagnostics[1] = "Warning: docs/APEX_YAML_REFERENCE.md not found"
           /\ locals.reference_keywords = YAML_KEYWORDS
           /\ locals.reference_keywords # {}
           /\ <<"keywords in APEX_YAML_REFERENCE.md", Cardinality(YAML_KEYWORDS)>>
                  \in Range(counts)
           /\ (pc = "exited" /\ fs_demo) =>
                  /\ <<"Total reference keywords", Cardinality(YAML_KEYWORDS)>>
                         \in Range(counts)
                  /\ exit_code = 0
    /\ (script = "smart_apex_keyword_analysis.py" /\ pc = "exited") =>
           /\ ~fs_extracted.exists =>
                  /\ diagnostics = <<"Error: Run extract_apex_keywords.py first">>
                  /\ counts = <<>>
                  /\ locals = EmptyLocals
           /\ (fs_extracted.exists /\ ~fs_reference.exists) =>
                  /\ diagnostics = <<"Error: APEX_YAML_REFERENCE.md not found">>
                  /\ Len(counts) = 2
                  /\ locals.documented_apex_keywords = {}
                  /\ locals.missing_keywords = {}
           /\ (~fs_extracted.exists \/ ~fs_reference.exists) =>
                  /\ written = {}
                  /\ exit_code = 0

\* The coverage check has gone through the files of apex-demo and ended
\* with the built-in keyword set, the reference document being absent.
C9_Witness ==
    /\ script = "check_yaml_keyword_coverage.py"
    /\ pc = "exited"
    /\ ~fs_reference.exists
    /\ fs_demo
    /\ yaml_i > 0
    /\ locals.reference_keywords = YAML_KEYWORDS
    /\ diagnostics[1] = "Warning: docs/APEX_YAML_REFERENCE.md not found"

\* Whether an input the running script needs is absent
RequiredInputMissing ==
    CASE script \in {"extract_apex_keywords.py", "check_yaml_keyword_coverage.py",
                     "analyze_demo_yaml_files.py", "fixed_yaml_mapping.py"} ->
             ~fs_demo
      [] script \in {"analyze_apex_documentation_gaps.py",
                     "smart_apex_keyword_analysis.py"} ->
             ~fs_extracted.exists \/ ~fs_reference.exists
      [] script = "definitive_apex_keywords.py" -> ~fs_reference.exists
      [] OTHER -> FALSE

\* Whether an exception ended the run
Crashed == \E i \in 1..Len(diagnostics) :
               diagnostics[i] \in {"KeyError", "ZeroDivisionError", "ValueError"}

\* C10: a script's process ends with status 1 when its required input
\* directory or file is missing, and with status 0 when it ran successfully.
C10_ExitCodes ==
    pc = "exited" =>
        /\ RequiredInputMissing => exit_code = 1
        /\ (~RequiredInputMissing /\ ~Crashed) => exit_code = 0

\* C12: when apex-demo exists but holds no matching file, each analysis
\* script completes without raising: the extractor ends with an empty keyword
\* set and counts of 0, the coverage check with an empty covered set and a
\* coverage of 0 of the reference keywords, the demo analyzer (no class, no
\* YAML file) with counts of 0 and a consistency score of 0; no run divides
\* by zero.
C12_ZeroFilesCompleteWithZeroes ==
    (pc = "exited" /\ fs_demo /\ fs_yaml = <<>>) =>
        /\ "ZeroDivisionError" \notin Range(diagnostics)
        /\ script = "extract_apex_keywords.py" =>
               /\ diagnostics = <<>>
               /\ exit_code = 0
               /\ locals.all_keywords = {}
               /\ counts = << <<"YAML files in apex-demo", 0>>,
                              <<"Total unique keywords found", 0>> >>
        /\ script = "check_yaml_keyword_coverage.py" =>
               /\ ~Crashed
               /\ exit_code = 0
               /\ locals.covered_keywords = {}
               /\ locals.covered_reference_keywords = {}
               /\ locals.reference_keywords # {}
               /\ <<"YAML files in apex-demo", 0>> \in Range(counts)
               /\ <<"Covered keywords", 0>> \in Range(counts)
        /\ (script = "analyze_demo_yaml_files.py"
                /\ <<"demo classes", 0>> \in Range(counts)) =>
               /\ diagnostics = <<>>
               /\ exit_code = 0
               /\ counts = << <<"demo classes", 0>>, <<"YAML files", 0>>,
                              <<"Consistency Score", 0>> >>

\* The demo analyzer has ended in a directory without classes and files
C12_Witness ==
    /\ pc = "exited"
    /\ script = "analyze_demo_yaml_files.py"
    /\ fs_demo
    /\ fs_yaml = <<>>
    /\ <<"demo classes", 0>> \in Range(counts)
    /\ <<"Consistency Score", 0>> \in Range(counts)

-----------------------------------------------------------------------------
(* Claims about the validation scripts (SpecValidate)                       *)

\* Whether every check the finished run made passed
EveryCheckPassed == \A i \in 1..Len(counts) : counts[i][2] = 1

\* Whether some file validate_yaml_files.py validated has an error
SomeFileHasError == \E i \in 1..Len(all_results) : all_results[i].errors # {}

\* C11: a validation script exits with status 1 if and only if one of its
\* validation steps reported a failure: validate_yaml_files.py exactly when
\* some file has an error, and final_100_percent_test.py, validate_phase3.py
\* and validate_migration.py exit with status 0 only when every check they
\* ran passed.
C11_ExitOneIffFailureReported ==
    pc = "exited" =>
        /\ script = "validate_yaml_files.py" =>
               (exit_code = 1 <=> SomeFileHasError)
        /\ script \in {"final_100_percent_test.py", "validate_phase3.py",
                       "validate_migration.py"} =>
               (exit_code = 0 => EveryCheckPassed)

\* Whether a file parses to a document whose metadata carries `fields` as
\* non-empty strings, a valid type, the fields of that type and one of the
\* type's sections
MeetsRequirements(file, fields) ==
    /\ file.readable /\ file.parse = "ok"
    /\ file.data.t = "map"
    /\ LET metadata == Get(file.data, "metadata")
       IN  /\ metadata.t = "map"
           /\ \A field \in fields : NonEmptyString(Get(metadata, field))
           /\ Get(metadata, "type").v \in VALID_FILE_TYPES
           /\ \A field \in TYPE_SPECIFIC_REQUIRED_FIELDS[Get(metadata, "type").v] :
                  NonEmptyString(Get(metadata, field))
           /\ \E section \in TYPE_REQUIRED_SECTIONS[Get(metadata, "type").v] :
                  Get(file.data, section) # Null

C20_EveryFileGetsAResult ==
    (script = "validate_yaml_files.py" /\ pc = "exited") =>
        /\ Len(all_results) = Len(v_yaml)
        /\ \A i \in 1..Len(diagnostics) :
               diagnostics[i] \notin {"AttributeError", "TypeError"}

-----------------------------------------------------------------------------
(* Claims about fix-yaml-metadata.py (SpecFix)                              *)

\* One turn of the loop of main in a run with --dry-run
DryRunStep ==
    /\ script = "fix-yaml-metadata.py"
    /\ pc = "files"
    /\ locals.dry_run
    /\ yaml_i' = yaml_i + 1

\* What the turn's call of fix_yaml_file returned, read off fixed_count
ReturnedTrue == locals'.fixed_count = locals.fixed_count + 1

\* What a run without --dry-run returns for the file of this turn
RealRunReturnsTrue == fix_yaml_file(fx_dir[yaml_i + 1], FALSE, fx_writable).returned

\* C14 as stated: with --dry-run fix_yaml_file changes neither the file nor
\* its backup, and returns what the run without --dry-run returns for the
\* same file
C14_DryRunReturnsAsRealRun ==
    [][DryRunStep => /\ fx_dir' = fx_dir
                     /\ ReturnedTrue = RealRunReturnsTrue]_vars

\* C14 amended: with --dry-run fix_yaml_file changes neither the file nor
\* its backup; it returns True whenever the run without --dry-run does, and
\* returns the same value wherever the file and its backup can be written
C14_DryRunChangesNothing ==
    [][DryRunStep => /\ fx_dir' = fx_dir
                     /\ RealRunReturnsTrue => ReturnedTrue
                     /\ fx_writable => (ReturnedTrue = RealRunReturnsTrue)]_vars

\* A dry run has reported a file it would fix, and left it without a backup
C14_Witness ==
    /\ script = "fix-yaml-metadata.py"
    /\ locals.dry_run
    /\ yaml_i = 1
    /\ locals.fixed_count = 1
    /\ fx_dir[1].name = "countries.yaml"
    /\ ~fx_dir[1].backup.exists

\* One turn of the loop of main in a run without --dry-run, where files can
\* be written, on a file whose metadata has a type with required fields
TypedFixStep ==
    /\ script = "fix-yaml-metadata.py"
    /\ pc = "files"
    /\ ~locals.dry_run
    /\ fx_writable
    /\ yaml_i' = yaml_i + 1
    /\ fx_dir[yaml_i + 1].file.readable
    /\ fx_dir[yaml_i + 1].file.parse = "ok"
    /\ HasKey(fx_dir[yaml_i + 1].file.data, "metadata")
    /\ Get(Get(fx_dir[yaml_i + 1].file.data, "metadata"), "type").t = "scalar"
    /\ Get(Get(fx_dir[yaml_i + 1].file.data, "metadata"), "type").v
           \in DOMAIN TYPE_REQUIRED_FIELDS

\* The metadata of the file of this turn holds `field` afterwards, with the
\* default value where it was missing
FieldAdded(before, after, field) ==
    /\ HasKey(after, field)
    /\ ~HasKey(before, field) =>
           Get(after, field) = Scalar(get_default_value(field))

\* C15: a fix without --dry-run adds every missing required field of the
\* metadata's type, so that afterwards the file's metadata holds each
\* required field of its type, a missing one with its default value
C15_MissingTypeFieldsAdded ==
    [][TypedFixStep =>
          \A i \in DOMAIN TYPE_REQUIRED_FIELDS[
                      Get(Get(fx_dir[yaml_i + 1].file.data, "metadata"), "type").v] :
             FieldAdded(Get(fx_dir[yaml_i + 1].file.data, "metadata"),
                        Get(fx_dir'[yaml_i + 1].file.data, "metadata"),
                        TYPE_REQUIRED_FIELDS[
                            Get(Get(fx_dir[yaml_i + 1].file.data, "metadata"),
                                "type").v][i])]_vars

-----------------------------------------------------------------------------
(* Claims about the reorganization scripts (SpecReorganize)                 *)

\* One call of copy_file_if_not_exists in a run of copy_remaining_files.py
CopyCallStep ==
    /\ script = "copy_remaining_files.py"
    /\ pc = "files"
    /\ yaml_i' = yaml_i + 1

\* The source and the destination of the call of this step
CallSrc == CopyCalls(rs_files)[yaml_i + 1][1]
CallDst == CopyCalls(rs_files)[yaml_i + 1][2]

\* The call of this step returned True, read off total_copied
CopyReturnedTrue == locals'.total_copied = locals.total_copied + 1

\* The call of this step created the destination as a copy of the source
CreatedAsCopy ==
    /\ CallSrc \in DOMAIN rs_files
    /\ CallDst \notin DOMAIN rs_files
    /\ CallDst \in DOMAIN rs_files'
    /\ rs_files'[CallDst] = rs_files[CallSrc]

\* C16: copy_file_if_not_exists leaves a destination that exists as it is,
\* never modifies the source, and returns True exactly when it created the
\* destination as a copy of the source
C16_CopyNeverOverwrites ==
    [][CopyCallStep =>
          /\ CallDst \in DOMAIN rs_files =>
                 CallDst \in DOMAIN rs_files' /\ rs_files'[CallDst] = rs_files[CallDst]
          /\ CallSrc \in DOMAIN rs_files =>
                 CallSrc \in DOMAIN rs_files' /\ rs_files'[CallSrc] = rs_files[CallSrc]
          /\ CopyReturnedTrue = CreatedAsCopy]_vars

\* A run has copied one file and has met a destination that existed, which
\* still holds what it held
C16_Witness ==
    /\ script = "copy_remaining_files.py"
    /\ pc = "exited"
    /\ locals.total_copied = 1
    /\ "bootstrap/sample-trade.xml" \in DOMAIN rs_files
    /\ "demos/bootstrap/otc-options/samples/sample-trade.xml" \in DOMAIN rs_files
    /\ rs_files["demos/bootstrap/otc-options/samples/sample-trade.xml"]
           = rs_files["bootstrap/sample-trade.xml"]
    /\ "bootstrap/market-data.yaml" \in DOMAIN rs_files
    /\ "demos/bootstrap/custody-auto-repair/datasets/market-data.yaml"
           \in DOMAIN rs_files
    /\ rs_files["demos/bootstrap/custody-auto-repair/datasets/market-data.yaml"].content
           = "# rewritten\n"

\* A path of the new structure
InNewStructure(path) == StartsWith(path, "demos/") \/ StartsWith(path, "reference/")

\* copy_remaining_files.py and then remove_old_structure.py have run to
\* their ends
Reorganized ==
    /\ Len(rs_runs) >= 2
    /\ rs_runs[1] = <<"copy_remaining_files.py", 0>>
    /\ rs_runs[2] = <<"remove_old_structure.py", 0>>

\* C17: after copy_remaining_files.py and then remove_old_structure.py,
\* every file the old structure held is in the new structure with the same
\* content
C17_NoFileLost ==
    Reorganized =>
        \A p \in DOMAIN rs_original :
            \E n \in DOMAIN rs_files :
                /\ InNewStructure(n)
                /\ rs_files[n].content = rs_original[p].content

-----------------------------------------------------------------------------
(* Claims about filter_apex_keywords (SpecClassify)                         *)

\* filter_apex_keywords has returned
Filtered == "filter_apex_keywords" \in c_done

-----------------------------------------------------------------------------
(* Claims about extract_yaml_blocks (SpecBlocks)                            *)

\* The lines of the text, and the numbers of its lines that are an opening
\* fence, a closing fence
TextLines == SplitLines(b_content)
Openings == {i \in 1..Len(TextLines) : Strip(TextLines[i]) = YamlFence}
Closings == {i \in 1..Len(TextLines) : Strip(TextLines[i]) = PlainFence}

\* The k-th number of a set of numbers, in order
Nth(S, k) == CHOOSE i \in S : Cardinality({j \in S : j < i}) = k - 1

\* The lines strictly between the opening fence at line i and the next
\* closing fence, joined
Between(i) ==
    JoinLines(SubSeq(TextLines, i + 1, Least({j \in Closings : j > i}) - 1))

\* C19 as stated: every opening fence gives one block, in document order,
\* with the lines up to the next closing fence and the number of its line
C19_EveryOpenedBlockReturned ==
    b_done =>
        /\ Len(b_blocks) = Cardinality(Openings)
        /\ \A k \in 1..Len(b_blocks) :
              /\ b_blocks[k][2] = Nth(Openings, k)
              /\ \E j \in Closings : j > Nth(Openings, k)
              /\ b_blocks[k][1] = Between(Nth(Openings, k))

\* The opening fences whose next fence line is a closing fence
ClosedOpenings ==
    {i \in Openings :
        \E j \in Closings : j > i /\ \A o \in Openings : ~(i < o /\ o < j)}

\* C19 amended: every opening fence that is followed by a closing fence with
\* no opening fence in between gives one block, in document order, with the
\* lines strictly between the two and the 1-based number of the opening
\* line; an opening fence that is not closed, or that another opening fence
\* follows first, gives none
C19_EveryClosedBlockReturned ==
    b_done =>
        /\ Len(b_blocks) = Cardinality(ClosedOpenings)
        /\ \A k \in 1..Len(b_blocks) :
              /\ b_blocks[k][2] = Nth(ClosedOpenings, k)
              /\ b_blocks[k][1] = Between(Nth(ClosedOpenings, k))

\* A block that opens at the second line was returned with its one line
C19_Witness ==
    /\ b_done
    /\ b_blocks = << <<"key: value", 2>> >>

-----------------------------------------------------------------------------
(* Claims about the demo analyzer (Spec)                                    *)

\* analyze_demo_yaml_files.py has analyzed the demo classes it found
DemoClassesAnalyzed ==
    /\ script = "analyze_demo_yaml_files.py"
    /\ pc = "exited"
    /\ fs_demo

\* C21: the analysis completes for every set of demo classes: no loading
\* pattern lacks a counter, the loading-pattern counters sum to the number of
\* demo classes, and so do the three counters of YAML file numbers
C21_PatternCountersComplete ==
    DemoClassesAnalyzed =>
        /\ "KeyError" \notin Range(diagnostics)
        /\ DOMAIN locals.patterns = PatternCounters
        /\ \A i \in 1..Len(locals.demo_classes) :
               locals.demo_classes[i].loading_pattern \in DOMAIN locals.patterns
        /\ locals.patterns["standard_apex_loader"] + locals.patterns["custom_loader"]
             + locals.patterns["configuration_method"]
             = Len(locals.demo_classes)
        /\ locals.patterns["no_yaml_files"] + locals.patterns["single_yaml_file"]
             + locals.patterns["multiple_yaml_files"]
             = Len(locals.demo_classes)

\* fixed_yaml_mapping.py has ended
MappingEnded ==
    /\ script = "fixed_yaml_mapping.py"
    /\ pc = "exited"

\* C22: find_class_yaml_mappings always returns the two values main unpacks,
\* and without apex-demo main reports that no demo class was found and
\* returns 1 without raising
C22_MissingDemoReturnsOne ==
    MappingEnded =>
        /\ locals.returned.items = 2
        /\ ~fs_demo =>
               /\ exit_code = 1
               /\ ~Crashed
               /\ "No demo classes with YAML files found" \in Range(diagnostics)

-----------------------------------------------------------------------------
(* Claims about running the reorganization again (SpecReorganize)           *)

\* copy_remaining_files.py has ended a run that followed a completed run of
\* itself or of remove_old_structure.py
CopyRanAgain ==
    /\ script = "copy_remaining_files.py"
    /\ pc = "exited"
    /\ Len(rs_runs) = 2
    /\ rs_runs[1][2] = 0

\* C23: a run of copy_remaining_files.py after an earlier run, or after the
\* old directories were removed, completes without raising and copies no
\* file
C23_CopyAgainCopiesNothing ==
    CopyRanAgain =>
        /\ "FileNotFoundError" \notin Range(diagnostics)
        /\ exit_code = 0
        /\ counts = << <<"Total files copied", 0>> >>

-----------------------------------------------------------------------------
(* Claims about ValidationResult and the section rule (SpecResult)          *)

\* C24: whatever add_error, add_warning and set_document_type calls were
\* made on a ValidationResult, is_valid is true exactly when errors is
\* empty; add_warning and set_document_type change neither is_valid nor
\* errors; is_valid, once false, stays false
C24_ValidIffNoErrors ==
    /\ [](r_result.is_valid <=> r_result.errors = {})
    /\ [][/\ r_method' \in {"add_warning", "set_document_type"} =>
               /\ r_result'.is_valid = r_result.is_valid
               /\ r_result'.errors = r_result.errors
          /\ ~r_result.is_valid => ~r_result'.is_valid]_vars

\* A result with an error got a warning and a document type afterwards
C24_Witness ==
    /\ r_method = "set_document_type"
    /\ r_result.errors = ResultErrors
    /\ r_result.warnings # {}
    /\ r_result.document_type = Scalar("dataset")
    /\ ~r_result.is_valid

\* The sections of the type that the content holds with a value
PresentSections(content, file_type) ==
    {section \in TYPE_REQUIRED_SECTIONS[file_type] :
         \E i \in 1..Len(content.items) :
             content.items[i][1] = section /\ content.items[i][2].t # "null"}

\* The sections among them that are a list or a mapping without items
EmptySections(content, file_type) ==
    {section \in PresentSections(content, file_type) :
         \E i \in 1..Len(content.items) :
             /\ content.items[i][1] = section
             /\ content.items[i][2].t \in {"list", "map"}
             /\ Len(content.items[i][2].items) = 0}

SectionError(file_type) ==
    "Document type '" \o file_type \o "' must contain at least one of its sections"

SectionWarning(section) ==
    "Section '" \o section
        \o "' is empty - consider adding content or removing the section"

\* C25: validate_top_level_sections records an error exactly when none of
\* the sections of the type is present with a value; when one is, it records
\* no error and one warning for each present section that is an empty list
\* or mapping; for a type without sections it records nothing
C25_AtLeastOneSection ==
    [][r_method' = "validate_top_level_sections" =>
          IF r_file_type' \notin DOMAIN TYPE_REQUIRED_SECTIONS
          THEN r_result' = r_result
          ELSE IF PresentSections(r_content', r_file_type') = {}
          THEN /\ SectionError(r_file_type') \in r_result'.errors
               /\ ~r_result'.is_valid
               /\ r_result'.warnings = r_result.warnings
          ELSE /\ r_result'.errors = r_result.errors
               /\ r_result'.is_valid = r_result.is_valid
               /\ r_result'.warnings = r_result.warnings \cup
                      {SectionWarning(section) :
                           section \in EmptySections(r_content', r_file_type')}]_vars

\* A rule-config with rules filled and enrichments empty got the one warning
\* and no error
C25_Witness ==
    /\ r_method = "validate_top_level_sections"
    /\ r_file_type = "rule-config"
    /\ PresentSections(r_content, r_file_type) = {"rules", "enrichments"}
    /\ r_result.errors = {}
    /\ r_result.is_valid
    /\ r_result.warnings = {SectionWarning("enrichments")}

-----------------------------------------------------------------------------
(* Claims about running the fixer again (SpecFix)                           *)

\* One call of fix_yaml_file by main
FixCallStep ==
    /\ script = "fix-yaml-metadata.py"
    /\ pc = "files"
    /\ yaml_i' = yaml_i + 1

TypeLine(doc_type) == "  type: \"" \o doc_type \o "\""

\* The fixer has written the type of this file
TypeAddedByFixer(entry) ==
    /\ entry.backup # NoFile
    /\ Get(Get(entry.file.data, "metadata"), "type").t = "scalar"
    /\ Contains(TypeLine(Get(Get(entry.file.data, "metadata"), "type").v),
                entry.file.content)
    /\ ~Contains(TypeLine(Get(Get(entry.file.data, "metadata"), "type").v),
                 entry.backup.content)

\* C27: the validator finds no invalid file type in a file whose type the
\* fixer added, and for every type both scripts know they require the same
\* type-specific fields
C27_FixerTypesPassValidator ==
    /\ \A i \in 1..Len(fx_dir) :
           TypeAddedByFixer(fx_dir[i]) =>
               ValidateFileType(Get(Get(fx_dir[i].file.data, "metadata"), "type"),
                                ValidationResult).result.errors = {}
    /\ \A doc_type \in DOMAIN TYPE_REQUIRED_FIELDS
                          \cap DOMAIN TYPE_SPECIFIC_REQUIRED_FIELDS :
           Range(TYPE_REQUIRED_FIELDS[doc_type])
               = TYPE_SPECIFIC_REQUIRED_FIELDS[doc_type]

-----------------------------------------------------------------------------
(* Claims about apex_keywords_extracted.txt (Spec)                          *)

\* C28: the keywords load_extracted_keywords reads from
\* apex_keywords_extracted.txt are the keywords of all_keywords that
\* extract_apex_keywords.main wrote into it
C28_KeywordsReadAsWritten ==
    (script = "extract_apex_keywords.py" /\ pc = "exited"
         /\ "apex_keywords_extracted.txt" \in written) =>
        load_extracted_keywords(fs_extracted) = locals.all_keywords

=============================================================================
